---------------------------- MODULE Spec2Model ----------------------------
(***************************************************************************)
(* A model of python-jss (jss/jss.py): the request router                  *)
(* (JSSObject.get_url), the factory (JSSObjectFactory.get_object), the     *)
(* transport (JSS.get / post / put / delete) and the create-or-update      *)
(* protocol (JSSObject.save / delete), against a JSS server that stores    *)
(* records and assigns identifiers.                                        *)
(*                                                                         *)
(* Text is modelled as a sequence of one-character strings, so that        *)
(* int(), split("=") and "%s" formatting are computed, not assumed.        *)
(* A URL is the triple of the three arguments of "%s%s%s": root, path      *)
(* segment and value; a URL made of the root alone has an empty segment    *)
(* and an empty value.                                                     *)
(***************************************************************************)
EXTENDS Integers, Sequences, FiniteSets, TLC

(***************************************************************************)
(* Bounds of the model.                                                    *)
(***************************************************************************)
\* Integer lookups range over -MaxInt..MaxInt.
MaxInt == 12
\* Free-text values of a lookup are at most MaxLen characters long.
MaxLen == 2
\* The server assigns identifiers 1..MaxId, each at most once.
MaxId == 2
\* The server's clock (its computed field) stops at MaxClock writes.
MaxClock == 2

(***************************************************************************)
(* Text.                                                                   *)
(***************************************************************************)
DigitChars == <<"0", "1", "2", "3", "4", "5", "6", "7", "8", "9">>

DigitSet == {DigitChars[i] : i \in 1..10}

DigitVal(ch) == (CHOOSE i \in 1..10 : DigitChars[i] = ch) - 1

\* Python's whitespace, as far as the lookups of the model go.
IsSpace(ch) == ch = " "

RECURSIVE NatToStr(_)
NatToStr(n) ==
    IF n < 10 THEN <<DigitChars[n + 1]>>
    ELSE NatToStr(n \div 10) \o <<DigitChars[(n % 10) + 1]>>

\* "%s" % n and str(n) of an integer n: its decimal text.
IntToStr(n) == IF n < 0 THEN <<"-">> \o NatToStr(0 - n) ELSE NatToStr(n)

\* "%s" % None
NoneText == <<"N", "o", "n", "e">>

RECURSIVE LStrip(_)
LStrip(s) == IF s # <<>> /\ IsSpace(Head(s)) THEN LStrip(Tail(s)) ELSE s

RECURSIVE RStrip(_)
RStrip(s) ==
    IF s # <<>> /\ IsSpace(s[Len(s)]) THEN RStrip(SubSeq(s, 1, Len(s) - 1))
    ELSE s

RECURSIVE DigitsVal(_)
DigitsVal(s) ==
    IF s = <<>> THEN 0
    ELSE 10 * DigitsVal(SubSeq(s, 1, Len(s) - 1)) + DigitVal(s[Len(s)])

\* int(s) of a text s: surrounding whitespace is dropped, one sign is
\* allowed, and at least one decimal digit must follow, nothing else.
\* [ok |-> FALSE] is ValueError.
ParseInt(s) ==
    LET t == RStrip(LStrip(s))
        signed == t # <<>> /\ Head(t) \in {"-", "+"}
        d == IF signed THEN Tail(t) ELSE t
    IN  IF d # <<>> /\ \A i \in 1..Len(d) : d[i] \in DigitSet
        THEN [ok |-> TRUE,
              n |-> IF signed /\ Head(t) = "-" THEN 0 - DigitsVal(d)
                    ELSE DigitsVal(d)]
        ELSE [ok |-> FALSE]

\* ch in s
Contains(s, ch) == \E i \in 1..Len(s) : s[i] = ch

\* s.split(ch): the parts of s between the occurrences of ch.
RECURSIVE Split(_, _)
Split(s, ch) ==
    IF ~Contains(s, ch) THEN <<s>>
    ELSE LET i == CHOOSE j \in 1..Len(s) :
                      s[j] = ch /\ \A k \in 1..(j - 1) : s[k] # ch
         IN  <<SubSeq(s, 1, i - 1)>> \o Split(SubSeq(s, i + 1, Len(s)), ch)

(***************************************************************************)
(* The catalog: the class attributes of the resource types.                *)
(***************************************************************************)
Classes ==
    {"Policy", "Package", "Account", "Computer", "ActivationCode",
     "SMTPServer", "JSSUser", "BYOProfile", "ComputerInvitation",
     "ComputerReport", "LDAPUsersResults", "Peripheral",
     "MobileDeviceInvitation", "AccountGroup", "PeripheralType"}

\* Subclasses of JSSFlatObject.
FlatClasses == {"ActivationCode", "SMTPServer", "JSSUser"}

_url(cls) ==
    CASE cls = "Policy" -> "/policies"
      [] cls = "Package" -> "/packages"
      [] cls = "Account" -> "/accounts"
      [] cls = "AccountGroup" -> "/accounts"
      [] cls = "PeripheralType" -> "/peripheraltypes"
      [] cls = "Computer" -> "/computers"
      [] cls = "ActivationCode" -> "/activationcode"
      [] cls = "SMTPServer" -> "/smtpserver"
      [] cls = "JSSUser" -> "/jssuser"
      [] cls = "BYOProfile" -> "/byoprofiles"
      [] cls = "ComputerInvitation" -> "/computerinvitations"
      [] cls = "ComputerReport" -> "/computerreports"
      [] cls = "Peripheral" -> "/peripherals"
      [] cls = "MobileDeviceInvitation" -> "/mobiledeviceinvitations"
      [] OTHER -> "None"

id_url(cls) ==
    CASE cls = "Account" -> "/userid/"
      [] cls = "AccountGroup" -> "/groupid/"
      [] cls = "SMTPServer" -> ""
      [] OTHER -> "/id/"

container(cls) ==
    CASE cls = "Account" -> "users"
      [] cls = "AccountGroup" -> "groups"
      [] OTHER -> ""

default_search(cls) == <<"n", "a", "m", "e">>

can_list(cls) == cls \notin FlatClasses

can_get(cls) == cls # "LDAPUsersResults"

can_put(cls) ==
    cls \notin {"JSSUser", "ComputerInvitation", "ComputerReport",
                "LDAPUsersResults", "MobileDeviceInvitation"}

can_post(cls) ==
    cls \notin FlatClasses
              \cup {"BYOProfile", "ComputerReport", "LDAPUsersResults"}

can_delete(cls) ==
    cls \notin {"ActivationCode", "JSSUser", "BYOProfile", "ComputerReport",
                "LDAPUsersResults"}

KeyName == <<"n", "a", "m", "e">>
KeyUdid == <<"u", "d", "i", "d">>
KeyMatch == <<"m", "a", "t", "c", "h">>
KeySerial == <<"s", "e", "r", "i", "a", "l", "_", "n", "u", "m", "b", "e", "r">>
KeyMac == <<"m", "a", "c", "a", "d", "d", "r", "e", "s", "s">>
KeyUserid == <<"u", "s", "e", "r", "i", "d">>
KeyUsername == <<"u", "s", "e", "r", "n", "a", "m", "e">>
KeyInvitation == <<"i", "n", "v", "i", "t", "a", "t", "i", "o", "n">>
KeyGroupid == <<"g", "r", "o", "u", "p", "i", "d">>
KeyGroupname == <<"g", "r", "o", "u", "p", "n", "a", "m", "e">>

\* search_types: the search keys of a class and their URL segments, as a
\* set of <<key, segment>> pairs.
search_types(cls) ==
    CASE cls \in FlatClasses \cup {"Peripheral", "PeripheralType"} -> {}
      [] cls = "AccountGroup" ->
            {<<KeyGroupid, "/groupid/">>, <<KeyGroupname, "/groupname/">>,
             <<KeyName, "/groupname/">>}
      [] cls = "Account" ->
            {<<KeyUserid, "/userid/">>, <<KeyUsername, "/username/">>,
             <<KeyName, "/username/">>}
      [] cls = "Computer" ->
            {<<KeyName, "/name/">>, <<KeySerial, "/serialnumber/">>,
             <<KeyUdid, "/udid/">>, <<KeyMac, "/macadress/">>,
             <<KeyMatch, "/match/">>}
      [] cls = "ComputerInvitation" ->
            {<<KeyName, "/name/">>, <<KeyInvitation, "/invitation/">>}
      [] cls = "MobileDeviceInvitation" ->
            {<<KeyInvitation, "/invitation/">>}
      [] OTHER -> {<<KeyName, "/name/">>}

\* key in cls.search_types
HasKey(cls, key) == \E p \in search_types(cls) : p[1] = key

\* cls.search_types[key]
Segment(cls, key) == (CHOOSE p \in search_types(cls) : p[1] = key)[2]

(***************************************************************************)
(* The router.  A lookup is None, an integer or a text.                    *)
(***************************************************************************)
NoneData == [kind |-> "none"]
IntData(n) == [kind |-> "int", n |-> n]
StrData(s) == [kind |-> "str", s |-> s]

Url(root, seg, val) == [root |-> root, seg |-> seg, val |-> val]

RootUrl(root) == Url(root, "", <<>>)

Ok(url) == [ok |-> TRUE, url |-> url]
Raise(exc) == [ok |-> FALSE, exc |-> exc]

\* The key=value branch of JSSObject.get_url.
KeyValueUrl(cls, s) ==
    LET parts == Split(s, "=")
    IN  IF Len(parts) # 2 THEN Raise("ValueError")
        ELSE IF HasKey(cls, parts[1])
             THEN Ok(Url(_url(cls), Segment(cls, parts[1]), parts[2]))
             ELSE Raise("JSSUnsupportedSearchMethodError")

\* The default-search branch of JSSObject.get_url.
DefaultUrl(cls, s) ==
    IF HasKey(cls, default_search(cls))
    THEN Ok(Url(_url(cls), Segment(cls, default_search(cls)), s))
    ELSE Raise("KeyError")

\* Coerce without the conversion: a text that reads as an integer stays a
\* text.
CoerceNever(data) == data

\* int(data) of get_url, with ValueError and TypeError passed over: the
\* lookup becomes an integer when it is one or reads as one.
Coerce(data) ==
    IF data.kind = "str" /\ ParseInt(data.s).ok
    THEN IntData(ParseInt(data.s).n)
    ELSE data

\* JSSObject.get_url
BaseGetUrl(cls, data) ==
    LET d == Coerce(data)
    IN  CASE d.kind = "int" -> Ok(Url(_url(cls), id_url(cls), IntToStr(d.n)))
          [] d.kind = "none" -> Ok(RootUrl(_url(cls)))
          [] OTHER -> IF Contains(d.s, "=") THEN KeyValueUrl(cls, d.s)
                      ELSE DefaultUrl(cls, d.s)

\* JSSFlatObject.get_url
FlatGetUrl(cls, data) ==
    IF data.kind # "none" THEN Raise("JSSUnsupportedSearchMethodError")
    ELSE Ok(RootUrl(_url(cls)))

\* cls.get_url(data), by the class's method resolution.
get_url(cls, data) ==
    IF cls \in FlatClasses THEN FlatGetUrl(cls, data)
    ELSE BaseGetUrl(cls, data)

\* get_post_url without the "0": the root.
get_post_url_root(cls) == RootUrl(_url(cls))

\* JSSObject.get_post_url
get_post_url(cls) == Url(_url(cls), id_url(cls), <<"0">>)

(***************************************************************************)
(* Object trees.  A tree holds the children the protocol reads or the      *)
(* server writes: the identifier and name (JSSObject.id / name), one       *)
(* field the client edits, one field only the server computes, the         *)
(* category element Policy.save and Package.save rewrite, and one child    *)
(* the server does not keep.                                               *)
(***************************************************************************)
\* JSSObject.id when neither id nor general/id has text: None.
NoId == <<>>

Names == {<<"a">>, <<"b">>}

\* The category element: absent; "empty" (an element without content);
\* "unassigned" (the server's marker of no category: id -1 in a policy,
\* the text "No category assigned" in a package); "set".
CatValues == {"absent", "empty", "unassigned", "set"}

CategoryClasses == {"Policy", "Package"}

Absent == [absent |-> TRUE]

Objs == {"o1", "o2"}

\* HTTP statuses the transport tests for.
StatusOK == 200
StatusCreated == 201
StatusError == 400
StatusNotFound == 404

\* Statuses a server or proxy may answer with besides those: one below
\* StatusError that is no success, one above it.
FaultStatuses == {302, 500}

\* An exception; status 0 stands for an exception without status_code.
NoErr == [exc |-> "", status |-> 0]
Exc(exc, status) == [exc |-> exc, status |-> status]

\* JSSContainerObject.new, Policy.new and Package.new: a name, and for the
\* classes with a category an element for it, filled when one is given.
NewTree(c, name, withCat) ==
    [id |-> NoId, name |-> name, data |-> 0, stamp |-> 0,
     cat |-> IF c \in CategoryClasses
             THEN (IF withCat THEN "set" ELSE "empty")
             ELSE "absent",
     extra |-> FALSE]

\* "%s" % self.id
IdText(t) == IF t.id = NoId THEN NoneText ELSE t.id

\* JSSObject.get_object_url
BaseObjectUrl(c, t) == Url(_url(c), id_url(c), IdText(t))

\* JSSFlatObject.get_object_url
FlatObjectUrl(c, t) == get_url(c, NoneData).url

get_object_url(c, t) ==
    IF c \in FlatClasses THEN FlatObjectUrl(c, t) ELSE BaseObjectUrl(c, t)

(***************************************************************************)
(* The server.  Record 0 is the single document of a flat class; records   *)
(* 1..MaxId are the objects of the other classes.                          *)
(***************************************************************************)
\* The record a URL names: 0 for the root, the identifier for an id URL,
\* the first record of that name for another segment, -1 for none.
ServerKey(c, s, u) ==
    IF u.seg = "" /\ u.val = <<>> THEN 0
    ELSE IF u.seg = id_url(c)
         THEN (IF ParseInt(u.val).ok /\ ParseInt(u.val).n \in 1..MaxId
               THEN ParseInt(u.val).n ELSE 0 - 1)
         ELSE LET hits == {k \in 1..MaxId : s[k] # Absent /\ s[k].name = u.val}
              IN  IF hits = {} THEN 0 - 1
                  ELSE CHOOSE k \in hits : \A j \in hits : k <= j

Present(c, s, u) == ServerKey(c, s, u) >= 0 /\ s[ServerKey(c, s, u)] # Absent

\* What the server keeps of a document sent to record key at time clk: it
\* sets the identifier and its own field, marks a missing category as
\* unassigned, and drops what it does not know.
Stored(c, key, body, clk) ==
    [id |-> IF key = 0 THEN NoId ELSE IntToStr(key),
     name |-> body.name, data |-> body.data, stamp |-> clk,
     cat |-> IF c \in CategoryClasses /\ body.cat \in {"absent", "empty"}
             THEN "unassigned" ELSE body.cat,
     extra |-> FALSE]

(***************************************************************************)
(* The transport: what each call does with the response's status and body. *)
(***************************************************************************)
Return == [ok |-> TRUE]
Fail(e) == [ok |-> FALSE, err |-> e]

\* JSS._error_handler: the exception carries the response's status.
error_handler_no_status(exc, status) == Fail(Exc(exc, 0))

error_handler(exc, status) == Fail(Exc(exc, status))

\* JSS.put
TransportPut(status) ==
    IF status # StatusCreated /\ status >= StatusError
    THEN error_handler("JSSPutError", status)
    ELSE Return

\* JSS.delete raising for server errors only.
TransportDeleteFrom500(status) ==
    IF status # StatusOK /\ status >= 500
    THEN error_handler("JSSDeleteError", status)
    ELSE Return

\* JSS.delete
TransportDelete(status) ==
    IF status # StatusOK /\ status >= StatusError
    THEN error_handler("JSSDeleteError", status)
    ELSE Return

\* JSS.get: the body is parsed unless the status is an error; a body that
\* is no XML raises a JSSGetError of its own, without status.
TransportGet(resp) ==
    IF resp.status # StatusOK /\ resp.status >= StatusError
    THEN error_handler("JSSGetError", resp.status)
    ELSE IF resp.body # "garbage" THEN [ok |-> TRUE, xml |-> resp]
         ELSE Fail(Exc("JSSGetError", 0))

\* JSS.post, up to the identifier: the body is searched for <id>n</id>
\* unless the status is an error; without a match, .group(1) of None
\* raises AttributeError.
TransportPost(resp) ==
    IF resp.status # StatusCreated /\ resp.status >= StatusError
    THEN error_handler("JSSPostError", resp.status)
    ELSE IF resp.body = "id" THEN [ok |-> TRUE, n |-> resp.n]
         ELSE Fail(Exc("AttributeError", 0))

(***************************************************************************)
(* JSSObject.save, JSSObject.delete and JSSObjectFactory.get_object,       *)
(* as the decisions they take between two transport calls.                 *)
(***************************************************************************)
Goto(next, url) == [ok |-> TRUE, next |-> next, url |-> url]

\* Policy.save and Package.save before super().save(): a category that is
\* the server's "unassigned" marker is emptied; find() of a missing
\* category element is None, and reading it raises AttributeError.
SavePre(c, t) ==
    IF c \notin CategoryClasses THEN [ok |-> TRUE, tree |-> t]
    ELSE IF t.cat = "absent" THEN Fail(Exc("AttributeError", 0))
    ELSE IF t.cat = "unassigned"
         THEN [ok |-> TRUE, tree |-> [t EXCEPT !.cat = "empty"]]
         ELSE [ok |-> TRUE, tree |-> t]

\* save without the check that the class can put or post.
SaveDispatchNoCheck(c, t) ==
    IF can_put(c) THEN Goto("put", get_object_url(c, t))
    ELSE Goto("post", get_post_url(c))

\* JSSObject.save up to its first request.
SaveDispatch(c, t) ==
    IF ~can_put(c) /\ ~can_post(c)
    THEN Fail(Exc("JSSMethodNotAllowedError", 0))
    ELSE IF can_put(c) THEN Goto("put", get_object_url(c, t))
         ELSE Goto("post", get_post_url(c))

\* The except clause falling back to a POST whatever the PUT's status.
OnPutErrorAnyStatus(c, e) ==
    IF can_post(c) THEN Goto("post", get_post_url(c))
    ELSE Fail(Exc("JSSMethodNotAllowedError", 0))

\* The except JSSPutError clause of save: not found falls back to a POST
\* when the class can post; any other error is raised again as a new
\* JSSPutError built from the caught one.
OnPutError(c, e) ==
    IF e.status = StatusNotFound
    THEN (IF can_post(c) THEN Goto("post", get_post_url(c))
          ELSE Fail(Exc("JSSMethodNotAllowedError", 0)))
    ELSE Fail(Exc("JSSPutError", 0))

\* The except JSSPostError clauses of save: a new JSSPostError built from
\* the caught one; anything else passes through.
OnPostError(e) ==
    IF e.exc = "JSSPostError" THEN Fail(Exc("JSSPostError", 0)) ELSE Fail(e)

\* The end of save without self.clear(): a child the document lacks stays.
ReplaceTreeNoClear(t, doc) == [doc EXCEPT !.extra = t.extra]

\* The end of save keeping the object's own identifier.
ReplaceTreeKeepId(t, doc) == [doc EXCEPT !.id = t.id]

\* The end of save keeping the fields the caller had changed.
ReplaceTreeKeepData(t, doc) == [doc EXCEPT !.data = t.data, !.name = t.name]

\* The end of save: self.clear(), then the children of updated_data.
ReplaceTree(t, doc) == doc

\* get_object with data None: the URL first, then the capabilities.
GetObjectNone(c) ==
    LET r == get_url(c, NoneData)
    IN  IF ~r.ok THEN Fail(Exc(r.exc, 0))
        ELSE IF can_list(c) /\ can_get(c) THEN Goto("list", r.url)
        ELSE IF can_get(c) THEN Goto("single", r.url)
        ELSE Fail(Exc("JSSMethodNotAllowedError", 0))

\* get_object with an integer or a text: the capability first, then the
\* URL.
GetObjectOne(c, data) ==
    IF can_get(c)
    THEN LET r == get_url(c, data)
         IN  IF r.ok THEN Goto("fetch", r.url) ELSE Fail(Exc(r.exc, 0))
    ELSE Fail(Exc("JSSMethodNotAllowedError", 0))

\* JSSObjectFactory.get_object up to its request.
GetObjectBegin(c, data) ==
    IF data.kind = "none" THEN GetObjectNone(c) ELSE GetObjectOne(c, data)

\* JSSObject.delete up to its request.
DeleteDispatch(c, t) ==
    IF ~can_delete(c) THEN Fail(Exc("JSSMethodNotAllowedError", 0))
    ELSE Goto("del", get_object_url(c, t))

(***************************************************************************)
(* State.                                                                  *)
(***************************************************************************)
VARIABLES
    cls,     \* the resource type the objects belong to
    srv,     \* the server's records: 0..MaxId -> a tree or Absent
    nextId,  \* the identifier the server assigns next
    clock,   \* the server's clock
    tree,    \* each object's tree, Absent before the object exists
    pc,      \* where each object's current operation stands
    op,      \* the operation: "save", "delete", "get_object" or "none"
    url,     \* the URL of the operation's next request
    log,     \* the requests the operation has issued, with their statuses
    err,     \* the exception the operation raised, NoErr if none
    pre,     \* the object's tree when the operation was called
    res,     \* what get_object returned: "object", "list" or "none"
    rcls,    \* router: the class asked
    rdata,   \* router: the lookup
    rres,    \* router: get_url's outcome for the lookup
    rres2    \* router: get_url's outcome for the lookup's decimal text

protoVars == <<cls, srv, nextId, clock, tree, pc, op, url, log, err, pre, res>>
routerVars == <<rcls, rdata, rres, rres2>>

\* get_object on its own, as a function of its arguments and of the
\* document the server answers with.
VARIABLES
    mcls,    \* mapper: obj_class
    mdata,   \* mapper: data
    msubset, \* mapper: subset
    mpc,     \* mapper: "idle", "call", "sent" or "done"
    mbranch, \* mapper: the branch of get_object that issued the GET
    mreq,    \* mapper: the URL of the GET, with its subset suffix
    mdoc,    \* mapper: the document the server answered with
    mres     \* mapper: what get_object returned or raised

mapperVars == <<mcls, mdata, msubset, mpc, mbranch, mreq, mdoc, mres>>

\* remove_object_from_list on its own.
VARIABLES
    ekids,   \* edit: the children of the list element
    ekids0,  \* edit: the children when the method was called
    ekey,    \* edit: the obj argument
    eres,    \* edit: the method's outcome
    ecall    \* edit: the method called, and for an object its name

editVars == <<ekids, ekids0, ekey, eres, ecall>>

\* A JSSObjectList on its own.
VARIABLES
    lcls,    \* list: obj_class
    lst,     \* list: the JSSListData elements, in order
    lorig,   \* list: the elements as the list was built
    lprev,   \* list: the elements before the last method call
    lhist,   \* list: the method calls made, with what they returned
    lpc,     \* list: "idle", "ready", "sent" inside retrieve, or "loop"
             \*       and "allsent" inside retrieve_all
    lgone,   \* list: the ids the server has no record of
    llog,    \* list: the GETs issued
    li,      \* list: retrieve_all's loop index i
    lfinal   \* list: retrieve_all's final_list

listVars == <<lcls, lst, lorig, lprev, lhist, lpc, lgone, llog, li, lfinal>>

VARIABLES
    ubase,   \* session: _base_url
    upc,     \* session: "idle", "none" before JSS(...), or "built"
    ureq,    \* session: the last request issued and the server's response
    uout,    \* session: what the last transport call returned or raised
    uerr     \* session: the exception of the last JSS(...) or assignment

sessionVars == <<ubase, upc, ureq, uout, uerr>>

VARIABLES
    gsmart,  \* group: the text of the tree's is_smart child, or "absent"
    gcrit,   \* group: the criteria child of the tree (an element), or 0
    gattr,   \* group: the attribute self.criteria (an element), or 0
    gheap,   \* group: the children of every criteria element made so far
    gnew,    \* group: the next element to make
    gadded,  \* group: the criteria added since the last successful save
    gsent,   \* group: the criteria of the document the last save sent
    gres     \* group: the last call and what it returned or raised

groupVars == <<gsmart, gcrit, gattr, gheap, gnew, gadded, gsent, gres>>

\* What the actions of one part leave unchanged: the other parts.
restOfProto ==
    <<routerVars, mapperVars, editVars, listVars, sessionVars, groupVars>>
restOfRouter ==
    <<protoVars, mapperVars, editVars, listVars, sessionVars, groupVars>>
restOfMapper ==
    <<protoVars, routerVars, editVars, listVars, sessionVars, groupVars>>
restOfEdit ==
    <<protoVars, routerVars, mapperVars, listVars, sessionVars, groupVars>>
restOfList ==
    <<protoVars, routerVars, mapperVars, editVars, sessionVars, groupVars>>
restOfSession ==
    <<protoVars, routerVars, mapperVars, editVars, listVars, groupVars>>
restOfGroup ==
    <<protoVars, routerVars, mapperVars, editVars, listVars, sessionVars>>

vars ==
    <<protoVars, routerVars, mapperVars, editVars, listVars, sessionVars,
      groupVars>>

NoUrl == RootUrl("")
Pending == [ok |-> FALSE, exc |-> "pending"]

\* The classes whose objects the protocol is run for.
ProtoClasses == Classes

RouterIdle ==
    /\ rcls = "Policy"
    /\ rdata = NoneData
    /\ rres = Pending
    /\ rres2 = Pending

\* A document: the children of its root.
NoDoc == <<>>

MapperIdle ==
    /\ mcls = "Policy"
    /\ mdata = NoneData
    /\ msubset = [kind |-> "none"]
    /\ mpc = "idle"
    /\ mbranch = "none"
    /\ mreq = [url |-> NoUrl, suffix |-> <<>>]
    /\ mdoc = NoDoc
    /\ mres = Pending

NoEdit == [op |-> "", name |-> <<>>]

EditIdle ==
    /\ ekids = <<>>
    /\ ekids0 = <<>>
    /\ ekey = NoneData
    /\ eres = Pending
    /\ ecall = NoEdit

ListIdle ==
    /\ lcls = "Policy"
    /\ lst = <<>>
    /\ lorig = <<>>
    /\ lprev = <<>>
    /\ lhist = <<>>
    /\ lpc = "idle"
    /\ lgone = {}
    /\ llog = <<>>
    /\ li = 0
    /\ lfinal = <<>>

NoReq == [verb |-> "", path |-> <<>>, url |-> <<>>, status |-> 0, body |-> ""]

SessionIdle ==
    /\ ubase = <<>>
    /\ upc = "idle"
    /\ ureq = NoReq
    /\ uout = Pending
    /\ uerr = NoErr

MaxElems == 3
MaxCriteria == 2

\* A call on a group: its name, its argument, and the outcome.
GroupCall(name, arg, ok, val, prev) ==
    [op |-> name, arg |-> arg, ok |-> ok, val |-> val, prev |-> prev]
NoCall == GroupCall("", NoneData, TRUE, "", "")

GroupIdle ==
    /\ gsmart = "absent"
    /\ gcrit = 0
    /\ gattr = 0
    /\ gheap = [e \in 1..MaxElems |-> <<>>]
    /\ gnew = 1
    /\ gadded = <<>>
    /\ gsent = <<>>
    /\ gres = NoCall

\* A fresh JSS session: no local objects; the server holds the document
\* of a flat class and no other record.
ProtoInit ==
    /\ srv = [k \in 0..MaxId |->
                IF k = 0 /\ cls \in FlatClasses
                THEN [id |-> NoId, name |-> <<"a">>, data |-> 0, stamp |-> 0,
                      cat |-> "absent", extra |-> FALSE]
                ELSE Absent]
    /\ nextId = 1
    /\ clock = 0
    /\ tree = [o \in Objs |-> Absent]
    /\ pc = [o \in Objs |-> "idle"]
    /\ op = [o \in Objs |-> "none"]
    /\ url = [o \in Objs |-> NoUrl]
    /\ log = [o \in Objs |-> <<>>]
    /\ err = [o \in Objs |-> NoErr]
    /\ pre = [o \in Objs |-> Absent]
    /\ res = [o \in Objs |-> "none"]

Init ==
    /\ cls \in ProtoClasses
    /\ ProtoInit
    /\ RouterIdle
    /\ MapperIdle
    /\ EditIdle
    /\ ListIdle
    /\ SessionIdle
    /\ GroupIdle

Request(verb, u, status, n) ==
    [verb |-> verb, url |-> u, status |-> status, n |-> n]

\* The object the single-threaded client works on.
Main == "o1"

\* The client is single-threaded: an operation starts when none is running.
MayStart(o) == o = Main /\ \A p \in Objs : pc[p] = "idle"

\* The operation raises e.
Raised(o, e) ==
    /\ pc' = [pc EXCEPT ![o] = "done"]
    /\ err' = [err EXCEPT ![o] = e]

\* The operation goes on to the request g names.
Continue(o, g) ==
    /\ pc' = [pc EXCEPT ![o] = g.next]
    /\ url' = [url EXCEPT ![o] = g.url]

Begin(o, name) ==
    /\ op' = [op EXCEPT ![o] = name]
    /\ log' = [log EXCEPT ![o] = <<>>]
    /\ pre' = [pre EXCEPT ![o] = tree[o]]
    /\ res' = [res EXCEPT ![o] = "none"]

(***************************************************************************)
(* The server's answers.                                                   *)
(***************************************************************************)
Garbage(status) == [status |-> status, body |-> "garbage", doc |-> Absent]

\* To a GET of one record: the record when there is one (or a body that
\* is no XML), not found when there is none, or a fault.
GetResponses(c, s, u) ==
    (IF Present(c, s, u)
     THEN {[status |-> StatusOK, body |-> "doc",
            doc |-> s[ServerKey(c, s, u)]],
           Garbage(StatusOK)}
     ELSE {Garbage(StatusNotFound)})
    \cup {Garbage(f) : f \in FaultStatuses}

\* To a GET of a listable class's root: the collection, or a fault.
ListResponses ==
    {[status |-> StatusOK, body |-> "list", doc |-> Absent]}
    \cup {Garbage(f) : f \in FaultStatuses}

\* To a PUT: created when the record exists, not found when it does not,
\* or a fault.
PutStatuses(c, s, u, clk) ==
    (IF Present(c, s, u)
     THEN (IF clk < MaxClock THEN {StatusCreated} ELSE {})
     ELSE {StatusNotFound})
    \cup FaultStatuses

\* To a DELETE.
DeleteStatuses(c, s, u) ==
    (IF Present(c, s, u) THEN {StatusOK} ELSE {StatusNotFound})
    \cup FaultStatuses

\* To a POST to the create URL: created, with the new identifier in the
\* body, or a fault without one.
PostResponses(next, clk) ==
    (IF next <= MaxId /\ clk < MaxClock
     THEN {[status |-> StatusCreated, body |-> "id", n |-> next]}
     ELSE {})
    \cup {[status |-> f, body |-> "garbage", n |-> 0] : f \in FaultStatuses}

\* xmldata.find("size") is not None
HasSize(xml) == xml.body = "list"

\* self.clear() alone: a tree without children.
ClearedTree ==
    [id |-> NoId, name |-> <<>>, data |-> 0, stamp |-> 0, cat |-> "absent",
     extra |-> FALSE]

(***************************************************************************)
(* Local actions.                                                          *)
(***************************************************************************)
\* cls(jss, name): a new local object.
New(o) ==
    /\ MayStart(o)
    /\ tree[o] = Absent
    /\ cls \notin FlatClasses
    /\ \E name \in Names, withCat \in BOOLEAN :
          tree' = [tree EXCEPT ![o] = NewTree(cls, name, withCat)]
    /\ UNCHANGED <<cls, srv, nextId, clock, pc, op, url, log, err, pre, res>>
    /\ UNCHANGED restOfProto

\* The trees one edit of t can give: the client's field changed, a child
\* added that the server does not know, the category element changed.
EditChoices(c, t) ==
    {[t EXCEPT !.data = 1 - t.data], [t EXCEPT !.extra = TRUE]}
    \cup (IF c \in CategoryClasses
          THEN {[t EXCEPT !.cat = v] : v \in CatValues \ {t.cat}}
          ELSE {})

\* The caller edits the object's tree in place.
Edit(o) ==
    /\ MayStart(o)
    /\ tree[o] # Absent
    /\ \E t \in EditChoices(cls, tree[o]) \ {tree[o]} :
          tree' = [tree EXCEPT ![o] = t]
    /\ UNCHANGED <<cls, srv, nextId, clock, pc, op, url, log, err, pre, res>>
    /\ UNCHANGED restOfProto

\* The caller takes the operation's outcome; the object is idle again.
Finish(o) ==
    /\ pc[o] = "done"
    /\ pc' = [pc EXCEPT ![o] = "idle"]
    /\ op' = [op EXCEPT ![o] = "none"]
    /\ url' = [url EXCEPT ![o] = NoUrl]
    /\ log' = [log EXCEPT ![o] = <<>>]
    /\ err' = [err EXCEPT ![o] = NoErr]
    /\ pre' = [pre EXCEPT ![o] = Absent]
    /\ res' = [res EXCEPT ![o] = "none"]
    /\ UNCHANGED <<cls, srv, nextId, clock, tree>>
    /\ UNCHANGED restOfProto

(***************************************************************************)
(* save()                                                                  *)
(***************************************************************************)
\* obj.save() up to its first request.
SaveCall(o) ==
    /\ tree[o] # Absent
    /\ Begin(o, "save")
    /\ LET p == SavePre(cls, tree[o])
       IN  IF ~p.ok
           THEN Raised(o, p.err) /\ UNCHANGED <<tree, url>>
           ELSE /\ tree' = [tree EXCEPT ![o] = p.tree]
                /\ LET g == SaveDispatch(cls, p.tree)
                   IN  IF g.ok THEN Continue(o, g) /\ err' = [err EXCEPT ![o] = NoErr]
                       ELSE Raised(o, g.err) /\ UNCHANGED url
    /\ UNCHANGED <<cls, srv, nextId, clock>>
    /\ UNCHANGED restOfProto

StartSave(o) == MayStart(o) /\ SaveCall(o)

\* self.jss.put(url, self) answered with status st, and what save does
\* with its outcome.
PutWith(o, st) ==
    /\ pc[o] = "put"
    /\ LET key == ServerKey(cls, srv, url[o])
           out == TransportPut(st)
           h == IF out.ok THEN Goto("get", url[o])
                ELSE OnPutError(cls, out.err)
       IN  /\ srv' = IF st = StatusCreated
                     THEN [srv EXCEPT
                             ![key] = Stored(cls, key, tree[o], clock + 1)]
                     ELSE srv
           /\ clock' = IF st = StatusCreated THEN clock + 1 ELSE clock
           /\ log' = [log EXCEPT
                        ![o] = Append(@, Request("PUT", url[o], st, 0))]
           /\ IF h.ok THEN Continue(o, h) /\ UNCHANGED err
              ELSE Raised(o, h.err) /\ UNCHANGED url
    /\ UNCHANGED <<cls, nextId, tree, op, pre, res>>
    /\ UNCHANGED restOfProto

PutStep(o) ==
    /\ pc[o] = "put"
    /\ \E st \in PutStatuses(cls, srv, url[o], clock) : PutWith(o, st)

\* updated_data = self.jss.get(url) answered with resp, and the end of
\* save.
GetWith(o, resp) ==
    /\ pc[o] = "get"
    /\ LET out == TransportGet(resp)
       IN  /\ log' = [log EXCEPT
               ![o] = Append(@, Request("GET", url[o], resp.status, 0))]
           /\ IF out.ok
              THEN /\ tree' = [tree EXCEPT
                                 ![o] = ReplaceTree(tree[o], out.xml.doc)]
                   /\ pc' = [pc EXCEPT ![o] = "done"]
                   /\ UNCHANGED err
              ELSE Raised(o, out.err) /\ UNCHANGED tree
    /\ UNCHANGED <<cls, srv, nextId, clock, op, url, pre, res>>
    /\ UNCHANGED restOfProto

GetStep(o) ==
    /\ pc[o] = "get"
    /\ \E resp \in GetResponses(cls, srv, url[o]) : GetWith(o, resp)

\* self.jss.post(self.__class__, url, self) up to its get_object call, and
\* what save does with a failure.
PostStep(o) ==
    /\ pc[o] = "post"
    /\ \E resp \in PostResponses(nextId, clock) :
          LET made == resp.status = StatusCreated
              out == TransportPost(resp)
              g == IF out.ok THEN GetObjectBegin(cls, IntData(out.n))
                   ELSE OnPostError(out.err)
          IN  /\ srv' = IF made
                        THEN [srv EXCEPT
                           ![nextId] = Stored(cls, nextId, tree[o], clock + 1)]
                        ELSE srv
              /\ nextId' = IF made THEN nextId + 1 ELSE nextId
              /\ clock' = IF made THEN clock + 1 ELSE clock
              /\ log' = [log EXCEPT
                  ![o] = Append(@, Request("POST", url[o], resp.status, resp.n))]
              /\ IF g.ok THEN Continue(o, g) /\ UNCHANGED err
                 ELSE Raised(o, g.err) /\ UNCHANGED url
    /\ UNCHANGED <<cls, tree, op, pre, res>>
    /\ UNCHANGED restOfProto

(***************************************************************************)
(* get_object                                                              *)
(***************************************************************************)
\* The lookups the protocol asks get_object for.
ProtoLookups ==
    {NoneData} \cup {IntData(n) : n \in 1..MaxId} \cup {StrData(s) : s \in Names}

StartGetObject(o) ==
    /\ MayStart(o)
    /\ tree[o] = Absent
    /\ Begin(o, "get_object")
    /\ \E data \in ProtoLookups :
          LET g == GetObjectBegin(cls, data)
          IN  IF g.ok THEN Continue(o, g) /\ UNCHANGED err
              ELSE Raised(o, g.err) /\ UNCHANGED url
    /\ UNCHANGED <<cls, srv, nextId, clock, tree>>
    /\ UNCHANGED restOfProto

\* The GET of get_object for an integer or a text, and the classification
\* of its answer; within save, the caller of post then replaces its tree
\* by the children of what get_object returned, which a JSSObjectList
\* does not have.
FetchStep(o) ==
    /\ pc[o] = "fetch"
    /\ \E resp \in GetResponses(cls, srv, url[o]) :
          LET out == TransportGet(resp)
          IN  /\ log' = [log EXCEPT
                  ![o] = Append(@, Request("GET", url[o], resp.status, 0))]
              /\ IF ~out.ok THEN Raised(o, out.err) /\ UNCHANGED <<tree, res>>
                 ELSE IF HasSize(out.xml)
                 THEN IF op[o] = "save"
                      THEN /\ tree' = [tree EXCEPT ![o] = ClearedTree]
                           /\ Raised(o, Exc("AttributeError", 0))
                           /\ UNCHANGED res
                      ELSE /\ res' = [res EXCEPT ![o] = "list"]
                           /\ pc' = [pc EXCEPT ![o] = "done"]
                           /\ UNCHANGED <<tree, err>>
                 ELSE /\ tree' = [tree EXCEPT
                                    ![o] = ReplaceTree(tree[o], out.xml.doc)]
                      /\ res' = [res EXCEPT
                           ![o] = IF op[o] = "save" THEN "none" ELSE "object"]
                      /\ pc' = [pc EXCEPT ![o] = "done"]
                      /\ UNCHANGED err
    /\ UNCHANGED <<cls, srv, nextId, clock, op, url, pre>>
    /\ UNCHANGED restOfProto

\* The GET of get_object(None) for a class that cannot list: one object.
SingleStep(o) ==
    /\ pc[o] = "single"
    /\ \E resp \in GetResponses(cls, srv, url[o]) :
          LET out == TransportGet(resp)
          IN  /\ log' = [log EXCEPT
                  ![o] = Append(@, Request("GET", url[o], resp.status, 0))]
              /\ IF ~out.ok THEN Raised(o, out.err) /\ UNCHANGED <<tree, res>>
                 ELSE /\ tree' = [tree EXCEPT ![o] = out.xml.doc]
                      /\ res' = [res EXCEPT ![o] = "object"]
                      /\ pc' = [pc EXCEPT ![o] = "done"]
                      /\ UNCHANGED err
    /\ UNCHANGED <<cls, srv, nextId, clock, op, url, pre>>
    /\ UNCHANGED restOfProto

\* The GET of get_object(None) for a class that can list: a JSSObjectList.
ListStep(o) ==
    /\ pc[o] = "list"
    /\ \E resp \in ListResponses :
          LET out == TransportGet(resp)
          IN  /\ log' = [log EXCEPT
                  ![o] = Append(@, Request("GET", url[o], resp.status, 0))]
              /\ IF ~out.ok THEN Raised(o, out.err) /\ UNCHANGED res
                 ELSE /\ res' = [res EXCEPT ![o] = "list"]
                      /\ pc' = [pc EXCEPT ![o] = "done"]
                      /\ UNCHANGED err
    /\ UNCHANGED <<cls, srv, nextId, clock, tree, op, url, pre>>
    /\ UNCHANGED restOfProto

(***************************************************************************)
(* delete()                                                                *)
(***************************************************************************)
StartDelete(o) ==
    /\ MayStart(o)
    /\ tree[o] # Absent
    /\ Begin(o, "delete")
    /\ LET g == DeleteDispatch(cls, tree[o])
       IN  IF g.ok THEN Continue(o, g) /\ UNCHANGED err
           ELSE Raised(o, g.err) /\ UNCHANGED url
    /\ UNCHANGED <<cls, srv, nextId, clock, tree>>
    /\ UNCHANGED restOfProto

\* self.jss.delete(self.get_object_url())
DeleteStep(o) ==
    /\ pc[o] = "del"
    /\ \E st \in DeleteStatuses(cls, srv, url[o]) :
          LET key == ServerKey(cls, srv, url[o])
              out == TransportDelete(st)
          IN  /\ srv' = IF st = StatusOK THEN [srv EXCEPT ![key] = Absent]
                        ELSE srv
              /\ log' = [log EXCEPT
                           ![o] = Append(@, Request("DELETE", url[o], st, 0))]
              /\ IF out.ok THEN pc' = [pc EXCEPT ![o] = "done"] /\ UNCHANGED err
                 ELSE Raised(o, out.err)
    /\ UNCHANGED <<cls, nextId, clock, tree, op, url, pre, res>>
    /\ UNCHANGED restOfProto

\* Someone else deletes a record on the server.
OutOfBandDelete ==
    /\ \A o \in Objs : pc[o] # "done"
    /\ \E k \in 1..MaxId :
          /\ srv[k] # Absent
          /\ srv' = [srv EXCEPT ![k] = Absent]
    /\ UNCHANGED <<cls, nextId, clock, tree, pc, op, url, log, err, pre, res>>
    /\ UNCHANGED restOfProto

Next ==
    \/ \E o \in Objs : New(o)
    \/ \E o \in Objs : Edit(o)
    \/ \E o \in Objs : StartSave(o)
    \/ \E o \in Objs : PutStep(o)
    \/ \E o \in Objs : GetStep(o)
    \/ \E o \in Objs : PostStep(o)
    \/ \E o \in Objs : StartGetObject(o)
    \/ \E o \in Objs : FetchStep(o)
    \/ \E o \in Objs : SingleStep(o)
    \/ \E o \in Objs : ListStep(o)
    \/ \E o \in Objs : StartDelete(o)
    \/ \E o \in Objs : DeleteStep(o)
    \/ \E o \in Objs : Finish(o)
    \/ OutOfBandDelete

Spec == Init /\ [][Next]_vars

(***************************************************************************)
(* The router on its own: get_url applied to a lookup.                     *)
(***************************************************************************)
\* The characters free text is made of.
RouterChars == {"a", "=", "1", " ", "-"}

\* The texts of at most n characters.
RECURSIVE Texts(_)
Texts(n) ==
    IF n = 0 THEN {<<>>}
    ELSE Texts(n - 1)
         \cup {<<ch>> \o t : ch \in RouterChars,
                             t \in {x \in Texts(n - 1) : Len(x) = n - 1}}

\* The keys a key=value lookup is tried with: every search key of the
\* catalog, and two that no class has.
RouterKeys ==
    {KeyName, KeyUdid, KeyMatch, KeySerial, KeyMac, KeyUserid, KeyUsername,
     KeyInvitation, KeyGroupid, KeyGroupname, <<"x">>, <<>>}

RouterInputs ==
    {NoneData}
    \cup {IntData(n) : n \in (0 - MaxInt)..MaxInt}
    \cup {StrData(t) : t \in Texts(MaxLen)}
    \cup {StrData(k \o <<"=">> \o v) : k \in RouterKeys, v \in Texts(MaxLen)}

RouterInit ==
    /\ cls = "Policy"
    /\ ProtoInit
    /\ rcls \in Classes
    /\ rdata \in RouterInputs
    /\ rres = Pending
    /\ rres2 = Pending
    /\ MapperIdle
    /\ EditIdle
    /\ ListIdle
    /\ SessionIdle
    /\ GroupIdle

\* cls.get_url(data)
Route ==
    /\ rres = Pending
    /\ rres' = get_url(rcls, rdata)
    /\ UNCHANGED <<rcls, rdata, rres2>>
    /\ UNCHANGED restOfRouter

\* cls.get_url(str(data)) for an integer data
RouteText ==
    /\ rdata.kind = "int"
    /\ rres2 = Pending
    /\ rres2' = get_url(rcls, StrData(IntToStr(rdata.n)))
    /\ UNCHANGED <<rcls, rdata, rres>>
    /\ UNCHANGED restOfRouter

\* cls.get_url("name=" + data) for a text data without "="
RouteByName ==
    /\ rdata.kind = "str"
    /\ ~Contains(rdata.s, "=")
    /\ rres2 = Pending
    /\ rres2' = get_url(rcls, StrData(KeyName \o <<"=">> \o rdata.s))
    /\ UNCHANGED <<rcls, rdata, rres>>
    /\ UNCHANGED restOfRouter

RouterNext == Route \/ RouteText \/ RouteByName

SpecRouter == RouterInit /\ [][RouterNext]_vars

(***************************************************************************)
(* get_object on its own: the subset argument, the URL of the GET and the  *)
(* classification of the answer.  A document is the sequence of the        *)
(* children of its root; a child has a tag, a text, the texts of its id    *)
(* and name children, and, for a container tag, its own children.          *)
(***************************************************************************)
Node(tag, text, id, name, kids) ==
    [tag |-> tag, text |-> text, id |-> id, name |-> name, kids |-> kids]
\* A list item with an id and a name child.
Item(tag, id, name) == Node(tag, <<>>, id, name, <<>>)
\* The size marker of a list of n items.
SizeNode(n) == Node("size", IntToStr(n), <<>>, <<>>, <<>>)
\* A child that holds text.
Field(tag, text) == Node(tag, text, <<>>, <<>>, <<>>)

GeneralText == <<"g", "e", "n", "e", "r", "a", "l">>
BasicText == <<"b", "a", "s", "i", "c">>
BasicUpperText == <<"B", "A", "S", "I", "C">>
BasicMixedText == <<"B", "a", "s", "i", "c">>
ScopeText == <<"s", "c", "o", "p", "e">>
SubsetPrefix == <<"/", "s", "u", "b", "s", "e", "t", "/">>

\* str.upper() on the letters subsets are written with.
UpperChar(ch) ==
    CASE ch = "a" -> "A" [] ch = "b" -> "B" [] ch = "c" -> "C"
      [] ch = "e" -> "E" [] ch = "g" -> "G" [] ch = "i" -> "I"
      [] ch = "l" -> "L" [] ch = "n" -> "N" [] ch = "o" -> "O"
      [] ch = "p" -> "P" [] ch = "r" -> "R" [] ch = "s" -> "S"
      [] OTHER -> ch
Upper(s) == [i \in 1..Len(s) |-> UpperChar(s[i])]

\* sep.join(parts)
RECURSIVE Join(_, _)
Join(parts, sep) ==
    IF parts = <<>> THEN <<>>
    ELSE IF Len(parts) = 1 THEN parts[1]
    ELSE parts[1] \o <<sep>> \o Join(Tail(parts), sep)

\* The subset argument: None, a list of texts, a text, or something else.
NoSubset == [kind |-> "none"]
ListSubset(l) == [kind |-> "list", l |-> l]
TextSubset(s) == [kind |-> "str", s |-> s]
OtherSubset == [kind |-> "other"]

\* bool(subset)
Truthy(subset) ==
    CASE subset.kind = "none" -> FALSE
      [] subset.kind = "list" -> subset.l # <<>>
      [] subset.kind = "str" -> subset.s # <<>>
      [] OTHER -> TRUE

\* The head of get_object: a text subset is split at "&", a subset that is
\* neither a list nor a text raises TypeError, a false one stays as it is.
\* The outcome is the list, or <<>> for a false subset.
SubsetList(subset) ==
    IF ~Truthy(subset) THEN [ok |-> TRUE, l |-> <<>>]
    ELSE IF subset.kind = "list" THEN [ok |-> TRUE, l |-> subset.l]
    ELSE IF subset.kind = "str" THEN [ok |-> TRUE, l |-> Split(subset.s, "&")]
    ELSE [ok |-> FALSE, exc |-> "TypeError"]

\* The subset left as the caller gave it.
WithGeneralNever(l) == l

\* "general" not in subset: append it.
WithGeneral(l) ==
    IF \E i \in 1..Len(l) : l[i] = GeneralText THEN l
    ELSE Append(l, GeneralText)

\* The URL of a GET: the routed URL and what is appended to it.
Get(u, suffix) == [url |-> u, suffix |-> suffix]
NoGet == Get(NoUrl, <<>>)

\* A data that is neither None, an int nor a text.
DictData == [kind |-> "dict"]
\* A data that is an xml.etree.ElementTree.Element.
ElementData == [kind |-> "element"]

\* What get_object returns: nothing, an object or a list.
Nothing == [ok |-> TRUE, kind |-> "nothing"]
AnObject(c, doc) == [ok |-> TRUE, kind |-> "object", cls |-> c, tree |-> doc]
AList(c, items) == [ok |-> TRUE, kind |-> "list", cls |-> c, items |-> items]

\* The outcome of get_object before its request: an exception, nothing,
\* or the GET to issue and the branch that classifies its answer.
Send(branch, u, suffix) ==
    [ok |-> TRUE, kind |-> "send", branch |-> branch, get |-> Get(u, suffix)]

\* get_object, data is None.
RequestNone(c, l) ==
    LET r == get_url(c, NoneData)
    IN  IF ~r.ok THEN Raise(r.exc)
        ELSE IF can_list(c) /\ can_get(c)
        THEN IF Len(l) = 1 /\ Upper(l[1]) = BasicUpperText /\ c = "Computer"
             THEN Send("list", r.url, SubsetPrefix \o BasicText)
             ELSE Send("list", r.url, <<>>)
        ELSE IF can_get(c) THEN Send("single", r.url, <<>>)
        ELSE Raise("JSSMethodNotAllowedError")

\* get_object, data is an int or a text.
RequestOne(c, data, l) ==
    IF ~can_get(c) THEN Raise("JSSMethodNotAllowedError")
    ELSE LET r == get_url(c, data)
         IN  IF ~r.ok THEN Raise(r.exc)
             ELSE IF l # <<>>
             THEN Send("fetch", r.url,
                       SubsetPrefix \o Join(WithGeneral(l), "&"))
             ELSE Send("fetch", r.url, <<>>)

\* get_object up to its GET.
GetObjectRequest(c, data, subset) ==
    LET sl == SubsetList(subset)
    IN  IF ~sl.ok THEN Raise(sl.exc)
        ELSE IF data.kind = "none" THEN RequestNone(c, sl.l)
        ELSE IF data.kind \in {"int", "str"} THEN RequestOne(c, data, sl.l)
        ELSE Nothing

\* The children of a sequence of nodes that are not the size marker.
RECURSIVE NonSize(_)
NonSize(nodes) ==
    IF nodes = <<>> THEN <<>>
    ELSE IF nodes[1].tag = "size" THEN NonSize(Tail(nodes))
    ELSE <<nodes[1]>> \o NonSize(Tail(nodes))

\* JSSListData(obj_class, {i.tag: i.text for i in response_object})
ListData(c, node) == [cls |-> c, id |-> node.id, name |-> node.name]
ListDatas(c, nodes) == [i \in 1..Len(nodes) |-> ListData(c, nodes[i])]

\* element.find(tag) is not None
HasChild(nodes, tag) == \E i \in 1..Len(nodes) : nodes[i].tag = tag
\* element.find(tag): the first child with the tag.
Find(nodes, tag) ==
    nodes[CHOOSE i \in 1..Len(nodes) :
             nodes[i].tag = tag /\ \A k \in 1..(i - 1) : nodes[k].tag # tag]

\* The list branch reading the root whatever the container.
ClassifyListRoot(c, doc) == AList(c, ListDatas(c, NonSize(doc)))

\* The list branch: the children of the root, or of the container tag,
\* that are not the size marker; iterating over a container that is not
\* there raises TypeError.
ClassifyList(c, doc) ==
    IF container(c) # ""
    THEN IF HasChild(doc, container(c))
         THEN AList(c, ListDatas(c, NonSize(Find(doc, container(c)).kids)))
         ELSE Raise("TypeError")
    ELSE AList(c, ListDatas(c, NonSize(doc)))

\* The branch of an int or a text: a list when the root has a size child.
ClassifyFetch(c, doc) ==
    IF HasChild(doc, "size") THEN AList(c, ListDatas(c, NonSize(doc)))
    ELSE AnObject(c, doc)

\* Every branch classifying by the size child of the root.
GetObjectResultByShape(c, branch, doc) ==
    IF HasChild(doc, "size") THEN AList(c, ListDatas(c, NonSize(doc)))
    ELSE AnObject(c, doc)

\* get_object from the answer of its GET.
GetObjectResult(c, branch, doc) ==
    CASE branch = "list" -> ClassifyList(c, doc)
      [] branch = "single" -> AnObject(c, doc)
      [] OTHER -> ClassifyFetch(c, doc)

\* The documents the server answers with.
ItemA == Item("item", <<"1">>, <<"a">>)
ItemB == Item("item", <<"2">>, <<"b">>)
DocObject == <<Field("id", <<"1">>), Field("name", <<"a">>)>>
DocEmpty == <<>>
DocList == <<SizeNode(2), ItemA, ItemB>>
DocListNone == <<SizeNode(0)>>
DocItems == <<ItemA, ItemB>>
DocAccounts ==
    <<Node("users", <<>>, <<>>, <<>>, <<ItemA, ItemB>>),
      Node("groups", <<>>, <<>>, <<>>, <<ItemB>>)>>
DocAccountsSized ==
    <<Node("users", <<>>, <<>>, <<>>, <<SizeNode(1), ItemA>>),
      Node("groups", <<>>, <<>>, <<>>, <<SizeNode(0)>>)>>
MapperDocs ==
    {DocObject, DocEmpty, DocList, DocListNone, DocItems, DocAccounts,
     DocAccountsSized}

MapperLookups ==
    {NoneData, IntData(1), StrData(<<"a">>), DictData, ElementData}

MapperSubsets ==
    {NoSubset, OtherSubset, ListSubset(<<>>), TextSubset(<<>>)}
    \cup {ListSubset(<<a>>) :
            a \in {GeneralText, ScopeText, BasicText, BasicMixedText}}
    \cup {ListSubset(<<a, b>>) : a, b \in {GeneralText, ScopeText}}
    \cup {TextSubset(t) :
            t \in {GeneralText, ScopeText, BasicUpperText,
                   ScopeText \o <<"&">> \o GeneralText,
                   ScopeText \o <<"&">> \o BasicText}}

MapperInit ==
    /\ cls = "Policy"
    /\ ProtoInit
    /\ RouterIdle
    /\ mcls \in Classes
    /\ mdata \in MapperLookups
    /\ msubset \in MapperSubsets
    /\ mpc = "call"
    /\ mbranch = "none"
    /\ mreq = NoGet
    /\ mdoc = NoDoc
    /\ mres = Pending
    /\ EditIdle
    /\ ListIdle
    /\ SessionIdle
    /\ GroupIdle

\* get_object(obj_class, data, subset) up to self.jss.get(url)
MapRequest ==
    /\ mpc = "call"
    /\ LET g == GetObjectRequest(mcls, mdata, msubset)
       IN  IF g.ok /\ g.kind = "send"
           THEN /\ mreq' = g.get
                /\ mbranch' = g.branch
                /\ mpc' = "sent"
                /\ UNCHANGED mres
           ELSE /\ mres' = g
                /\ mpc' = "done"
                /\ UNCHANGED <<mreq, mbranch>>
    /\ UNCHANGED <<mcls, mdata, msubset, mdoc>>
    /\ UNCHANGED restOfMapper

\* The answer of the GET and what get_object makes of it.
MapResponse ==
    /\ mpc = "sent"
    /\ \E doc \in MapperDocs :
          /\ mdoc' = doc
          /\ mres' = GetObjectResult(mcls, mbranch, doc)
    /\ mpc' = "done"
    /\ UNCHANGED <<mcls, mdata, msubset, mbranch, mreq>>
    /\ UNCHANGED restOfMapper

MapperNext == MapRequest \/ MapResponse

SpecMapper == MapperInit /\ [][MapperNext]_vars

(***************************************************************************)
(* remove_object_from_list on its own.  A child of the list element is the *)
(* pair of what findtext("id") and findtext("name") give for it.           *)
(***************************************************************************)
\* The children a list element has at most.
MaxKids == 2

\* What findtext gives for a child that is not there, and the id of an
\* object without one: None.
Missing == <<"">>

Child(id, name) == [id |-> id, name |-> name]

\* The obj argument: a JSSObject (by its id), an int, a text, or a value
\* of another type.
ObjKey(id) == [kind |-> "obj", id |-> id]
OtherKey == [kind |-> "other"]

\* The positions of the children remove_object_from_list selects.
Results(kids, key) ==
    CASE key.kind = "obj" ->
            {i \in 1..Len(kids) : kids[i].id = key.id}
      [] key.kind = "int" ->
            {i \in 1..Len(kids) : kids[i].id = IntToStr(key.n)}
      [] OTHER ->
            {i \in 1..Len(kids) : kids[i].id = key.s \/ kids[i].name = key.s}

\* list_element.remove(child) for the child at position i.
RemoveAt(kids, i) == SubSeq(kids, 1, i - 1) \o SubSeq(kids, i + 1, Len(kids))

\* Removing the first selected child whenever there is one.
RemoveObjectFirst(kids, key) ==
    IF key.kind \notin {"obj", "int", "str"}
    THEN [ok |-> FALSE, exc |-> "UnboundLocalError", kids |-> kids]
    ELSE IF Results(kids, key) # {}
    THEN [ok |-> TRUE,
          kids |-> RemoveAt(kids, CHOOSE i \in Results(kids, key) :
                                     \A j \in Results(kids, key) : i <= j)]
    ELSE [ok |-> FALSE, exc |-> "ValueError", kids |-> kids]

\* remove_object_from_list: for an obj of another type results is never
\* bound; one selected child is removed; otherwise ValueError.
RemoveObject(kids, key) ==
    IF key.kind \notin {"obj", "int", "str"}
    THEN [ok |-> FALSE, exc |-> "UnboundLocalError", kids |-> kids]
    ELSE IF Cardinality(Results(kids, key)) = 1
    THEN [ok |-> TRUE,
          kids |-> RemoveAt(kids, CHOOSE i \in Results(kids, key) : TRUE)]
    ELSE [ok |-> FALSE, exc |-> "ValueError", kids |-> kids]

\* The text of an element made with a value: findtext gives "" for an
\* element whose text is None.
TextOf(v) == IF v = Missing THEN <<>> ELSE v

\* JSSContainerObject.as_list_data
as_list_data(id, name) == Child(TextOf(id), TextOf(name))

\* add_object_to_path: the entry is appended, then the first child whose
\* id text equals obj.id is returned, by its position; [0] of an empty
\* selection raises IndexError.
add_object_to_path(kids, id, name, valid) ==
    IF ~valid THEN [ok |-> FALSE, exc |-> "ValueError", kids |-> kids]
    ELSE LET appended == Append(kids, as_list_data(id, name))
             results == {i \in 1..Len(appended) : appended[i].id = id}
         IN  IF results = {}
             THEN [ok |-> FALSE, exc |-> "IndexError", kids |-> appended]
             ELSE [ok |-> TRUE, kids |-> appended,
                   at |-> CHOOSE i \in results : \A j \in results : i <= j]

EditIds == {<<"1">>, <<"2">>, Missing}
EditNames == {<<"a">>, <<"1">>, Missing}
EditChildren == {Child(i, n) : i \in EditIds, n \in EditNames}

RECURSIVE ChildLists(_)
ChildLists(n) ==
    IF n = 0 THEN {<<>>}
    ELSE ChildLists(n - 1)
         \cup {Append(l, c) : l \in {x \in ChildLists(n - 1) : Len(x) = n - 1},
                              c \in EditChildren}

EditKeys ==
    {ObjKey(i) : i \in EditIds}
    \cup {IntData(1), IntData(2), StrData(<<"1">>), StrData(<<"2">>),
          StrData(<<"a">>), OtherKey}

EditInit ==
    /\ cls = "Policy"
    /\ ProtoInit
    /\ RouterIdle
    /\ MapperIdle
    /\ ekids \in ChildLists(MaxKids)
    /\ ekids0 = ekids
    /\ ekey \in EditKeys
    /\ eres = Pending
    /\ ecall = NoEdit
    /\ ListIdle
    /\ SessionIdle
    /\ GroupIdle

\* self.remove_object_from_list(obj, list_element)
Remove ==
    /\ eres = Pending
    /\ LET out == RemoveObject(ekids, ekey)
       IN  /\ ekids' = out.kids
           /\ eres' = IF out.ok THEN Return ELSE Raise(out.exc)
    /\ ecall' = [op |-> "remove", name |-> <<>>]
    /\ UNCHANGED <<ekids0, ekey>>
    /\ UNCHANGED restOfEdit

\* self.add_object_to_path(obj, location) for an object with a name, at a
\* path that finds the list element or at one that finds nothing.
Add ==
    /\ eres = Pending
    /\ ekey.kind = "obj"
    /\ \E name \in EditNames, valid \in BOOLEAN :
          LET out == add_object_to_path(ekids, ekey.id, name, valid)
          IN  /\ ekids' = out.kids
              /\ eres' = IF out.ok THEN [ok |-> TRUE, at |-> out.at]
                         ELSE Raise(out.exc)
              /\ ecall' = [op |-> "add", name |-> name]
    /\ UNCHANGED <<ekids0, ekey>>
    /\ UNCHANGED restOfEdit

EditNext == Remove \/ Add

SpecEdit == EditInit /\ [][EditNext]_vars

(***************************************************************************)
(* A JSSObjectList on its own: sort, sort_by_name and retrieve.  An        *)
(* element is a JSSListData: the class, the texts of id and name, and      *)
(* whatever else the server put in the list item.                          *)
(***************************************************************************)
\* The elements a list has at most, and the method calls made on it.
MaxItems == 3
MaxOps == 2

Summary(c, id, name, other) ==
    [cls |-> c, id |-> id, name |-> name, other |-> other]

\* JSSListData.id: int(self["id"])
IdOf(r) == ParseInt(r.id).n

\* ord() of the characters ids and names are written with.
Ord(ch) ==
    CASE ch = "0" -> 48 [] ch = "1" -> 49 [] ch = "9" -> 57
      [] ch = "B" -> 66 [] ch = "a" -> 97 [] ch = "b" -> 98
      [] OTHER -> 0

\* s < t for two texts.
RECURSIVE TextLess(_, _)
TextLess(s, t) ==
    IF t = <<>> THEN FALSE
    ELSE IF s = <<>> THEN TRUE
    ELSE IF Ord(s[1]) # Ord(t[1]) THEN Ord(s[1]) < Ord(t[1])
    ELSE TextLess(Tail(s), Tail(t))

\* The key of sort never telling two elements apart.
IdLtNever(r1, r2) == FALSE

\* The key of sort comparing the id texts.
IdLtText(r1, r2) == TextLess(r1.id, r2.id)

\* key=lambda k: k.id
IdLt(r1, r2) == IdOf(r1) < IdOf(r2)

\* The key of sort_by_name never telling two elements apart.
NameLtNever(r1, r2) == FALSE

\* key=lambda k: k.name
NameLt(r1, r2) == TextLess(r1.name, r2.name)

\* list.sort(key=...): the element at position i moves behind those with a
\* smaller key and those with an equal key that stood before it.
StableSort(l, Lt(_, _)) ==
    LET before(i) ==
          {j \in 1..Len(l) :
             \/ Lt(l[j], l[i])
             \/ ~Lt(l[i], l[j]) /\ ~Lt(l[j], l[i]) /\ j < i}
    IN  [p \in 1..Len(l) |->
           l[CHOOSE i \in 1..Len(l) : Cardinality(before(i)) = p - 1]]

\* JSSObjectList.sort
sort(l) == StableSort(l, IdLt)

\* JSSObjectList.sort_by_name
sort_by_name(l) == StableSort(l, NameLt)

\* retrieve asking for the element's position instead of its id.
retrieve_by_position(c, l, index) ==
    IF index \notin 0..(Len(l) - 1) THEN Raise("IndexError")
    ELSE GetObjectRequest(c, IntData(index), NoSubset)

\* JSSObjectList.retrieve up to the GET of get_object.
retrieve(c, l, index) ==
    IF index \notin 0..(Len(l) - 1) THEN Raise("IndexError")
    ELSE GetObjectRequest(c, IntData(IdOf(l[index + 1])), NoSubset)

\* The document of the object with an id.
FullDoc(id) == <<Field("id", id), Field("general", <<>>)>>

ListClasses == {"Policy", "Account"}
ListIds == {<<"9">>, <<"1", "0">>}
ListNames == {<<"a">>, <<"B">>}
\* Every id with every name, and one more element that differs from
\* another in neither.
Summaries(c) ==
    {Summary(c, i, n, "x") : i \in ListIds, n \in ListNames}
    \cup {Summary(c, <<"9">>, <<"a">>, "y")}

\* The lists of at most n different elements.
RECURSIVE SummaryLists(_, _)
SummaryLists(c, n) ==
    IF n = 0 THEN {<<>>}
    ELSE SummaryLists(c, n - 1)
         \cup {Append(l, r) :
                 l \in {x \in SummaryLists(c, n - 1) : Len(x) = n - 1},
                 r \in Summaries(c)}

Distinct(l) == \A i, j \in 1..Len(l) : l[i] = l[j] => i = j

\* A method call: its argument, what it returned, and the GETs it issued.
Call(name, index, out) ==
    [op |-> name, index |-> index, res |-> out, sent |-> 0]

ListInit ==
    /\ cls = "Policy"
    /\ ProtoInit
    /\ RouterIdle
    /\ MapperIdle
    /\ EditIdle
    /\ SessionIdle
    /\ GroupIdle
    /\ lcls \in ListClasses
    /\ lorig \in {l \in SummaryLists(lcls, MaxItems) : Distinct(l)}
    /\ lst = lorig
    /\ lprev = lorig
    /\ lhist = <<>>
    /\ lpc = "ready"
    /\ lgone \in {{}, {9}}
    /\ llog = <<>>
    /\ li = 0
    /\ lfinal = <<>>

\* self.sort()
Sort ==
    /\ lpc = "ready" /\ Len(lhist) < MaxOps
    /\ lprev' = lst
    /\ lst' = sort(lst)
    /\ lhist' = Append(lhist, Call("sort", 0 - 1, Return))
    /\ UNCHANGED <<lcls, lorig, lpc, lgone, llog, li, lfinal>>
    /\ UNCHANGED restOfList

\* self.sort_by_name()
SortByName ==
    /\ lpc = "ready" /\ Len(lhist) < MaxOps
    /\ lprev' = lst
    /\ lst' = sort_by_name(lst)
    /\ lhist' = Append(lhist, Call("sort_by_name", 0 - 1, Return))
    /\ UNCHANGED <<lcls, lorig, lpc, lgone, llog, li, lfinal>>
    /\ UNCHANGED restOfList

\* self.retrieve(index) up to the GET
RetrieveCall ==
    /\ lpc = "ready" /\ Len(lhist) < MaxOps
    /\ lprev' = lst
    /\ \E index \in 0..Len(lst) :
          LET g == retrieve(lcls, lst, index)
          IN  IF g.ok /\ g.kind = "send"
              THEN /\ llog' = Append(llog, g.get)
                   /\ lpc' = "sent"
                   /\ lhist' = Append(lhist,
                         [Call("retrieve", index, Pending) EXCEPT !.sent = 1])
              ELSE /\ lhist' = Append(lhist, Call("retrieve", index, g))
                   /\ UNCHANGED <<llog, lpc>>
    /\ UNCHANGED <<lcls, lst, lorig, lgone, li, lfinal>>
    /\ UNCHANGED restOfList

\* The answer to the GET of retrieve: the object's document, or not found.
RetrieveAnswer ==
    /\ lpc = "sent"
    /\ LET u == llog[Len(llog)].url
           out == IF ParseInt(u.val).n \in lgone THEN Raise("JSSGetError")
                  ELSE GetObjectResult(lcls, "fetch", FullDoc(u.val))
       IN  lhist' = [lhist EXCEPT ![Len(lhist)].res = out]
    /\ lpc' = "ready"
    /\ UNCHANGED <<lcls, lst, lorig, lprev, lgone, llog, li, lfinal>>
    /\ UNCHANGED restOfList

\* The loop of retrieve_all stopping after its first member.
retrieve_all_first(l, i) == i >= 1 \/ i >= Len(l)

\* range(0, len(self)) is used up.
retrieve_all_done(l, i) == i >= Len(l)

\* The body of retrieve_all's loop up to the GET of get_object, with the
\* default subset.
retrieve_all_fetch(c, l, i) ==
    GetObjectRequest(c, IntData(IdOf(l[i + 1])), NoSubset)

\* What retrieve_all returns: final_list.
AllOf(items) == [ok |-> TRUE, kind |-> "all", items |-> items]

\* self.retrieve_all(): final_list = []
RetrieveAllCall ==
    /\ lpc = "ready" /\ Len(lhist) < MaxOps
    /\ lprev' = lst
    /\ li' = 0
    /\ lfinal' = <<>>
    /\ lpc' = "loop"
    /\ lhist' = Append(lhist, Call("retrieve_all", 0 - 1, Pending))
    /\ UNCHANGED <<lcls, lst, lorig, lgone, llog>>
    /\ UNCHANGED restOfList

\* One turn of the loop up to the GET, or the return of final_list.
RetrieveAllStep ==
    /\ lpc = "loop"
    /\ IF retrieve_all_done(lst, li)
       THEN /\ lhist' = [lhist EXCEPT ![Len(lhist)].res = AllOf(lfinal)]
            /\ lpc' = "ready"
            /\ UNCHANGED llog
       ELSE LET g == retrieve_all_fetch(lcls, lst, li)
            IN  IF g.ok /\ g.kind = "send"
                THEN /\ llog' = Append(llog, g.get)
                     /\ lhist' = [lhist EXCEPT ![Len(lhist)].sent = @ + 1]
                     /\ lpc' = "allsent"
                ELSE /\ lhist' = [lhist EXCEPT ![Len(lhist)].res = g]
                     /\ lpc' = "ready"
                     /\ UNCHANGED llog
    /\ UNCHANGED <<lcls, lst, lorig, lprev, lgone, li, lfinal>>
    /\ UNCHANGED restOfList

\* The answer to a GET of retrieve_all: the member's document is appended
\* to final_list, or the exception of get_object leaves retrieve_all.
RetrieveAllAnswer ==
    /\ lpc = "allsent"
    /\ LET u == llog[Len(llog)].url
           out == IF ParseInt(u.val).n \in lgone THEN Raise("JSSGetError")
                  ELSE GetObjectResult(lcls, "fetch", FullDoc(u.val))
       IN  IF out.ok
           THEN /\ lfinal' = Append(lfinal, out)
                /\ li' = li + 1
                /\ lpc' = "loop"
                /\ UNCHANGED lhist
           ELSE /\ lhist' = [lhist EXCEPT ![Len(lhist)].res = out]
                /\ lpc' = "ready"
                /\ UNCHANGED <<li, lfinal>>
    /\ UNCHANGED <<lcls, lst, lorig, lprev, lgone, llog>>
    /\ UNCHANGED restOfList

ListNext ==
    \/ Sort
    \/ SortByName
    \/ RetrieveCall
    \/ RetrieveAnswer
    \/ RetrieveAllCall
    \/ RetrieveAllStep
    \/ RetrieveAllAnswer

SpecList == ListInit /\ [][ListNext]_vars

(***************************************************************************)
(* The session's base URL: JSS.__init__, the base_url property and the     *)
(* request_url the four transport calls build from it.                     *)
(***************************************************************************)
MaxUrl == 2

UrlChars == {"h", "/"}

\* The texts of at most n of the characters a base URL is written with.
RECURSIVE UrlTexts(_)
UrlTexts(n) ==
    IF n = 0 THEN {<<>>}
    ELSE UrlTexts(n - 1)
         \cup {<<ch>> \o t : ch \in UrlChars,
                 t \in {x \in UrlTexts(n - 1) : Len(x) = n - 1}}

\* str.rstrip("/") taking one slash only.
rstrip_one(s) ==
    IF s # <<>> /\ s[Len(s)] = "/" THEN SubSeq(s, 1, Len(s) - 1) ELSE s

\* str.rstrip("/")
RECURSIVE rstrip(_)
rstrip(s) ==
    IF s # <<>> /\ s[Len(s)] = "/" THEN rstrip(SubSeq(s, 1, Len(s) - 1))
    ELSE s

\* urllib.quote: a space is written %20, letters and slashes stay.
RECURSIVE quote(_)
quote(s) ==
    IF s = <<>> THEN <<>>
    ELSE (IF Head(s) = " " THEN <<"%", "2", "0">> ELSE <<Head(s)>>)
         \o quote(Tail(s))

JSSResource == <<"J", "S", "S", "R", "e", "s", "o", "u", "r", "c", "e">>

\* JSS._url: "%s/%s" % (self.base_url, "JSSResource")
ResourceUrl(base) == base \o <<"/">> \o JSSResource

\* request_url of get, and of post, put and delete.
request_url(base, verb, url_path) ==
    ResourceUrl(base) \o (IF verb = "GET" THEN quote(url_path) ELSE url_path)

\* The url argument of JSS(...) and of an assignment to base_url.
UrlArgs == {NoneData} \cup {StrData(t) : t \in UrlTexts(MaxUrl)}
UrlPaths == {<<"/", "p", " ">>}

SessionInit ==
    /\ cls = "Policy"
    /\ ProtoInit
    /\ RouterIdle
    /\ MapperIdle
    /\ EditIdle
    /\ ListIdle
    /\ GroupIdle
    /\ ubase = <<>>
    /\ upc = "none"
    /\ ureq = NoReq
    /\ uout = Pending
    /\ uerr = NoErr

\* base_url's setter; None has no rstrip.
SetBase(given) ==
    IF given.kind = "none"
    THEN /\ uerr' = Exc("AttributeError", 0)
         /\ UNCHANGED <<ubase, upc>>
    ELSE /\ ubase' = rstrip(given.s)
         /\ upc' = "built"
         /\ uerr' = NoErr

\* JSS(url=...)
Construct ==
    /\ upc = "none"
    /\ \E given \in UrlArgs : SetBase(given)
    /\ UNCHANGED <<ureq, uout>>
    /\ UNCHANGED restOfSession

\* j.base_url = url
AssignBase ==
    /\ upc = "built"
    /\ \E given \in UrlArgs : SetBase(given)
    /\ UNCHANGED <<ureq, uout>>
    /\ UNCHANGED restOfSession

\* What the server may answer: every status with every body.
SessionStatuses ==
    {StatusOK, StatusCreated, StatusError, StatusNotFound} \cup FaultStatuses
SessionResponses(verb) ==
    IF verb = "GET"
    THEN {[status |-> st, body |-> b] :
             st \in SessionStatuses, b \in {"doc", "garbage"}}
    ELSE IF verb = "POST"
    THEN {[status |-> st, body |-> b, n |-> 1] :
             st \in SessionStatuses, b \in {"id", "garbage"}}
    ELSE {[status |-> st, body |-> ""] : st \in SessionStatuses}

\* The four transport calls after the response has come.
Transport(verb, resp) ==
    CASE verb = "GET" -> TransportGet(resp)
      [] verb = "POST" -> TransportPost(resp)
      [] verb = "PUT" -> TransportPut(resp.status)
      [] OTHER -> TransportDelete(resp.status)

\* j.get(url_path), j.post(...), j.put(...), j.delete(...): the request,
\* the server's response, and what the call makes of it.  (post goes on
\* to fetch the new object; that fetch is a get of its own.)
SendRequest ==
    /\ upc = "built"
    /\ \E verb \in {"GET", "POST", "PUT", "DELETE"}, url_path \in UrlPaths :
          \E resp \in SessionResponses(verb) :
             /\ ureq' = [verb |-> verb, path |-> url_path,
                         url |-> request_url(ubase, verb, url_path),
                         status |-> resp.status, body |-> resp.body]
             /\ uout' = Transport(verb, resp)
    /\ uerr' = NoErr
    /\ UNCHANGED <<ubase, upc>>
    /\ UNCHANGED restOfSession

SessionNext == Construct \/ AssignBase \/ SendRequest

SpecSession == SessionInit /\ [][SessionNext]_vars

(***************************************************************************)
(* A computer group: XMLEditor.set_bool, JSSGroupObject.is_smart and       *)
(* add_criterion, ComputerGroup.__init__ and new, and what save() does to  *)
(* the tree.  Elements are told apart by their identity, a number.         *)
(***************************************************************************)
BoolData(b) == [kind |-> "bool", b |-> b]

\* Only True itself counting as true.
is_true(v) == v.kind = "bool" /\ v.b

\* bool(value)
bool(v) ==
    CASE v.kind = "bool" -> v.b
      [] v.kind = "int" -> v.n # 0
      [] v.kind = "str" -> v.s # <<>>
      [] OTHER -> FALSE

\* The text set_bool writes.
BoolText(v) == IF bool(v) THEN "true" ELSE "false"

\* JSSGroupObject.is_smart, the getter.
is_smart(text) == text = "true"

\* The values set_bool and the setter of is_smart are given.
GroupValues ==
    {BoolData(TRUE), BoolData(FALSE), IntData(0), IntData(1), NoneData,
     StrData(<<>>), StrData(<<"f", "a", "l", "s", "e">>)}

Criteria == {"c1", "c2"}

\* The groups to start from: ComputerGroup(jss, name, smart=b), and a
\* group fetched from the server, whose document may lack either child.
GroupStarts ==
    {[smart |-> BoolText(BoolData(b)), crit |-> TRUE, kids |-> <<>>] :
        b \in BOOLEAN}
    \cup {[smart |-> t, crit |-> c, kids |-> k] :
            t \in {"true", "false", "absent"},
            c \in BOOLEAN,
            k \in {<<>>, <<"c1">>}}

\* ComputerGroup.__init__: self.criteria = self.find("criteria")
GroupInit ==
    /\ cls = "Policy"
    /\ ProtoInit
    /\ RouterIdle
    /\ MapperIdle
    /\ EditIdle
    /\ ListIdle
    /\ SessionIdle
    /\ \E g \in {x \in GroupStarts : x.crit \/ x.kids = <<>>} :
          /\ gsmart = g.smart
          /\ gcrit = (IF g.crit THEN 1 ELSE 0)
          /\ gattr = (IF g.crit THEN 1 ELSE 0)
          /\ gheap = [e \in 1..MaxElems |-> IF e = 1 THEN g.kids ELSE <<>>]
          /\ gnew = (IF g.crit THEN 2 ELSE 1)
    /\ gadded = <<>>
    /\ gsent = <<>>
    /\ gres = NoCall

PrevOf(r) == IF r.ok THEN r.op ELSE "raised"

\* self.set_bool(location, value); the tree has one element a text can be
\* set on, is_smart, and _handle_location raises for a path that finds
\* nothing.
SetBool ==
    /\ \E location \in {"is_smart", "nowhere"}, v \in GroupValues :
          IF location = "is_smart" /\ gsmart # "absent"
          THEN /\ gsmart' = BoolText(v)
               /\ gres' = GroupCall("set_bool", v, TRUE, "", PrevOf(gres))
          ELSE /\ gres' = GroupCall("set_bool", v, FALSE, "ValueError",
                                    PrevOf(gres))
               /\ UNCHANGED gsmart
    /\ UNCHANGED <<gcrit, gattr, gheap, gnew, gadded, gsent>>
    /\ UNCHANGED restOfGroup

\* group.is_smart = value
AssignSmart ==
    /\ \E v \in GroupValues :
          IF gsmart = "absent"
          THEN /\ gres' = GroupCall("assign", v, FALSE, "ValueError",
                                    PrevOf(gres))
               /\ UNCHANGED <<gsmart, gcrit, gattr, gnew>>
          ELSE /\ gsmart' = BoolText(v)
               /\ gres' = GroupCall("assign", v, TRUE, "", PrevOf(gres))
               /\ IF v = BoolData(TRUE) /\ gcrit = 0 /\ gnew <= MaxElems
                  THEN /\ gcrit' = gnew
                       /\ gattr' = gnew
                       /\ gnew' = gnew + 1
                  ELSE UNCHANGED <<gcrit, gattr, gnew>>
    /\ UNCHANGED <<gheap, gadded, gsent>>
    /\ UNCHANGED restOfGroup

\* group.is_smart
ReadSmart ==
    /\ gres.op # "read"
    /\ gres' = GroupCall("read", gres.arg, TRUE,
                         IF is_smart(gsmart) THEN "True" ELSE "False",
                         PrevOf(gres))
    /\ UNCHANGED <<gsmart, gcrit, gattr, gheap, gnew, gadded, gsent>>
    /\ UNCHANGED restOfGroup

\* group.add_criterion(...): self.criteria.append(criterion)
AddCriterion ==
    /\ Len(gadded) < MaxCriteria
    /\ \E c \in Criteria :
          IF gattr = 0
          THEN /\ gres' = GroupCall("add_criterion", NoneData, FALSE,
                                    "AttributeError", PrevOf(gres))
               /\ UNCHANGED <<gheap, gadded>>
          ELSE /\ Len(gheap[gattr]) < MaxCriteria + 1
               /\ gheap' = [gheap EXCEPT ![gattr] = Append(@, c)]
               /\ gadded' = Append(gadded, c)
               /\ gres' = GroupCall("add_criterion", NoneData, TRUE, "",
                                    PrevOf(gres))
    /\ UNCHANGED <<gsmart, gcrit, gattr, gnew, gsent>>
    /\ UNCHANGED restOfGroup

\* The criteria children of the tree.
TreeCriteria == IF gcrit = 0 THEN <<>> ELSE gheap[gcrit]

\* save(), lines 785-787: the tree's children are those of the document
\* the server answered with, elements of their own.
SavedTree(crit, fresh) == IF crit = 0 THEN 0 ELSE fresh

\* group.save(): the tree is sent; if the server took it and answered
\* with the record, the answer's children replace the tree's, otherwise
\* save raises.
GroupSave ==
    /\ \E taken \in BOOLEAN :
          IF taken /\ gnew <= MaxElems
          THEN /\ gsent' = TreeCriteria
               /\ gcrit' = SavedTree(gcrit, gnew)
               /\ gheap' = [gheap EXCEPT ![gnew] = TreeCriteria]
               /\ gnew' = IF gcrit = 0 THEN gnew ELSE gnew + 1
               /\ gadded' = <<>>
               /\ gres' = GroupCall("save", NoneData, TRUE, "", PrevOf(gres))
          ELSE /\ gres' = GroupCall("save", NoneData, FALSE, "JSSPutError",
                                    PrevOf(gres))
               /\ UNCHANGED <<gsent, gcrit, gheap, gnew, gadded>>
    /\ UNCHANGED <<gsmart, gattr>>
    /\ UNCHANGED restOfGroup

GroupNext ==
    \/ SetBool
    \/ AssignSmart
    \/ ReadSmart
    \/ AddCriterion
    \/ GroupSave

SpecGroup == GroupInit /\ [][GroupNext]_vars

(***************************************************************************)
(* Two local objects of one server record saved by two callers at once:    *)
(* the PUT and the GET of the two save() calls in every order, with a      *)
(* server that answers every request with success.                         *)
(***************************************************************************)
\* The classes whose objects are fetched by id and saved by PUT.
RaceClasses ==
    {c \in Classes : can_put(c) /\ can_get(c) /\ c \notin FlatClasses}

\* The record both objects were fetched from.
RaceRecord(c, name) == Stored(c, 1, NewTree(c, name, TRUE), 0)

\* o1 has changed the data field, o2 the name.
RaceInit ==
    /\ cls \in RaceClasses
    /\ \E name \in Names, other \in Names, extra \in BOOLEAN :
          /\ other # name
          /\ srv = [k \in 0..MaxId |->
                      IF k = 1 THEN RaceRecord(cls, name) ELSE Absent]
          /\ tree = [o \in Objs |->
                       IF o = "o1"
                       THEN [RaceRecord(cls, name) EXCEPT
                               !.data = 1, !.extra = extra]
                       ELSE [RaceRecord(cls, name) EXCEPT
                               !.name = other]]
    /\ nextId = 2
    /\ clock = 0
    /\ pc = [o \in Objs |-> "idle"]
    /\ op = [o \in Objs |-> "none"]
    /\ url = [o \in Objs |-> NoUrl]
    /\ log = [o \in Objs |-> <<>>]
    /\ err = [o \in Objs |-> NoErr]
    /\ pre = [o \in Objs |-> Absent]
    /\ res = [o \in Objs |-> "none"]
    /\ RouterIdle
    /\ MapperIdle
    /\ EditIdle
    /\ ListIdle
    /\ SessionIdle
    /\ GroupIdle

\* Each caller calls save() once.
RaceSave(o) == pc[o] = "idle" /\ op[o] = "none" /\ SaveCall(o)

\* The PUT, taken by the server.
RacePut(o) ==
    /\ pc[o] = "put"
    /\ \E st \in PutStatuses(cls, srv, url[o], clock) \cap {StatusCreated} :
          PutWith(o, st)

\* The GET, answered with the record.
RaceGet(o) ==
    /\ pc[o] = "get"
    /\ \E resp \in {r \in GetResponses(cls, srv, url[o]) :
                       r.status = StatusOK /\ r.body = "doc"} :
          GetWith(o, resp)

RaceNext == \E o \in Objs : RaceSave(o) \/ RacePut(o) \/ RaceGet(o)

SpecRace == RaceInit /\ [][RaceNext]_vars

(***************************************************************************)
(* Properties.  An operation that has returned or raised stands at "done"  *)
(* with its requests in log, its exception in err and the tree it was      *)
(* called on in pre.                                                       *)
(***************************************************************************)
Done(o, name) == pc[o] = "done" /\ op[o] = name
Succeeded(o, name) == Done(o, name) /\ err[o] = NoErr
Verbs(o, verb) == {i \in 1..Len(log[o]) : log[o][i].verb = verb}

\* url_root + id path + the identifier the object had when called.
IdUrlOf(c, t) == Url(_url(c), id_url(c), IdText(t))

\* The object's own URL: the root alone for a flat class.
OwnUrlOf(c, t) == IF c \in FlatClasses THEN RootUrl(_url(c)) ELSE IdUrlOf(c, t)

\* What a GET of the record with the object's identifier returns now.
Refetch(o) ==
    LET r == get_url(cls, IntData(ParseInt(tree[o].id).n))
    IN  IF r.ok /\ Present(cls, srv, r.url)
        THEN srv[ServerKey(cls, srv, r.url)] ELSE Absent

\* A POST of save is to the create URL, and comes either second, after a
\* PUT answered not found, for a class that can post, or first, for a
\* class that can post and cannot put.
PostRouted(o) ==
    \A i \in Verbs(o, "POST") :
       /\ log[o][i].url = Url(_url(cls), id_url(cls), <<"0">>)
       /\ can_post(cls)
       /\ \/ i = 1 /\ ~can_put(cls)
          \/ /\ i = 2
             /\ log[o][1].verb = "PUT"
             /\ log[o][1].status = StatusNotFound

AtMostOnePutOnePost(o) ==
    Cardinality(Verbs(o, "PUT")) <= 1 /\ Cardinality(Verbs(o, "POST")) <= 1

\* C1 as stated: the first request of a save() of a class that can put is
\* a PUT to url_root + id path + id, for every class; a POST is issued only
\* after a 404 PUT (class can post) or when the class cannot put; at most
\* one PUT and one POST per save().
C1_Original ==
    \A o \in Objs :
       op[o] = "save" =>
          /\ (can_put(cls) /\ log[o] # <<>>) =>
                /\ log[o][1].verb = "PUT"
                /\ log[o][1].url = IdUrlOf(cls, pre[o])
          /\ PostRouted(o)
          /\ AtMostOnePutOnePost(o)

\* C1 amended: the same, the PUT going to the object's own URL, which is
\* url_root + id path + id except for a flat class, where it is url_root.
C1_SaveRouting ==
    \A o \in Objs :
       op[o] = "save" =>
          /\ (can_put(cls) /\ log[o] # <<>>) =>
                /\ log[o][1].verb = "PUT"
                /\ log[o][1].url = OwnUrlOf(cls, pre[o])
          /\ PostRouted(o)
          /\ AtMostOnePutOnePost(o)

\* A save() whose PUT was answered 404 and that went on to POST and GET.
C1_Witness ==
    \E o \in Objs :
       /\ Succeeded(o, "save")
       /\ Len(log[o]) = 3
       /\ log[o][1].verb = "PUT" /\ log[o][1].status = StatusNotFound
       /\ log[o][2].verb = "POST"

\* C2 as stated: after a save() that raised, at whatever point, the
\* object's tree is the tree save() was called on, for every class.
C2_FailedSaveKeepsTree ==
    \A o \in Objs :
       (Done(o, "save") /\ err[o] # NoErr) => tree[o] = pre[o]

\* C3 as stated: when the PUT of save() fails with a status other than 404,
\* or its POST fails, save() raises the transport's exception as it was
\* raised, kind and status, and that request is the last one.
C3_FailureUnmodified ==
    \A o \in Objs :
       \A i \in 1..Len(log[o]) :
          LET r == log[o][i]
              failed ==
                 \/ /\ r.verb = "PUT"
                    /\ ~TransportPut(r.status).ok
                    /\ r.status # StatusNotFound
                 \/ r.verb = "POST" /\ r.status >= StatusError
          IN  (op[o] = "save" /\ failed) =>
                 /\ i = Len(log[o])
                 /\ pc[o] = "done"
                 /\ err[o] = Exc(IF r.verb = "PUT" THEN "JSSPutError"
                                 ELSE "JSSPostError", r.status)

\* C4: after a save() that returned, the object's tree is the record the
\* server holds at the URL of the save's last GET: the server's computed
\* field is the server's, and a child the server does not return is gone.
C4_TreeIsServerRecord ==
    \A o \in Objs :
       Succeeded(o, "save") =>
          LET r == log[o][Len(log[o])]
          IN  /\ r.verb = "GET"
              /\ Present(cls, srv, r.url)
              /\ tree[o] = srv[ServerKey(cls, srv, r.url)]
              /\ tree[o].extra = FALSE

\* A save() returned for an object that had a child the server does not
\* keep and an older value of the server's field.
C4_Witness ==
    \E o \in Objs :
       /\ Succeeded(o, "save")
       /\ pre[o].extra = TRUE /\ tree[o].extra = FALSE
       /\ tree[o].stamp > pre[o].stamp
       /\ tree[o].id # NoId

IsSuccess(status) == status \in 200..299

TransientSaved(o) ==
    (Succeeded(o, "save") /\ pre[o].id = NoId /\ cls \notin FlatClasses) =>
       /\ tree[o].id # NoId
       /\ \E i \in Verbs(o, "POST") : tree[o].id = IntToStr(log[o][i].n)
       /\ Refetch(o) = tree[o]

\* The record of the identifier the object had when save() was called is
\* still on the server.
StillThere(o) == pre[o].id # NoId /\ Present(cls, srv, IdUrlOf(cls, pre[o]))

\* C7 as stated: a locally constructed object that is saved ends with the
\* identifier the server assigned and a tree equal to what a fetch by that
\* identifier returns; a further save() keeps the identifier.
C7_Original ==
    \A o \in Objs :
       /\ TransientSaved(o)
       /\ (Succeeded(o, "save") /\ StillThere(o)) => tree[o].id = pre[o].id

\* C7 amended: the same, a further save() keeping the identifier for a
\* class that can put.
C7_RoundTrip ==
    \A o \in Objs :
       /\ TransientSaved(o)
       /\ (Succeeded(o, "save") /\ StillThere(o) /\ can_put(cls))
             => tree[o].id = pre[o].id

\* A locally constructed object was saved by PUT (404), POST and GET.
C7_Witness ==
    \E o \in Objs :
       /\ Succeeded(o, "save")
       /\ pre[o].id = NoId /\ tree[o].id # NoId
       /\ Len(log[o]) = 3
       /\ log[o][1].status = StatusNotFound
       /\ Refetch(o) = tree[o]

\* What follows a first request of save() for c of an object with an
\* identifier: a PUT to the identifier's URL; once it is answered 404 no
\* GET of that URL, and when save() is over exactly one POST, to the create
\* URL; and when save() returned, the identifier the POST's answer gave,
\* which is not the old one.
FallsBack(o) ==
    /\ log[o][1].verb = "PUT"
    /\ log[o][1].url = IdUrlOf(cls, pre[o])
    /\ log[o][1].status = StatusNotFound =>
          /\ pc[o] # "get"
          /\ pc[o] = "done" =>
                /\ Len(log[o]) >= 2
                /\ log[o][2].verb = "POST"
                /\ log[o][2].url = Url(_url(cls), id_url(cls), <<"0">>)
                /\ Cardinality(Verbs(o, "POST")) = 1
          /\ Succeeded(o, "save") =>
                /\ tree[o].id = IntToStr(log[o][2].n)
                /\ tree[o].id # pre[o].id

\* C8 as stated: the save() of an object with an identifier whose record
\* is gone sends a PUT to the stale URL and, answered not found, exactly
\* one POST to the create URL, and ends with the newly assigned
\* identifier, different from the stale one.
C8_Original ==
    \A o \in Objs :
       (op[o] = "save" /\ pre[o].id # NoId /\ log[o] # <<>>) => FallsBack(o)

\* C8 amended: the same for a class that can both put and post.
C8_Fallback ==
    \A o \in Objs :
       (/\ op[o] = "save" /\ pre[o].id # NoId /\ log[o] # <<>>
        /\ can_put(cls) /\ can_post(cls)) => FallsBack(o)

\* An object with identifier 1, its record gone, was saved and has
\* identifier 2.
C8_Witness ==
    \E o \in Objs :
       /\ Succeeded(o, "save")
       /\ pre[o].id = <<"1">> /\ tree[o].id = <<"2">>
       /\ log[o][1].verb = "PUT" /\ log[o][1].status = StatusNotFound
       /\ Cardinality(Verbs(o, "POST")) = 1

FirstEq(s) == CHOOSE i \in 1..Len(s) : s[i] = "=" /\ \A k \in 1..(i - 1) : s[k] # "="
KeyOf(s) == SubSeq(s, 1, FirstEq(s) - 1)
ValueOf(s) == SubSeq(s, FirstEq(s) + 1, Len(s))

\* C10 as stated: for every class that is not flat and every text
\* key=value, whatever the value, get_url returns url_root +
\* search_types[key] + value when the class has the key and raises
\* JSSUnsupportedSearchMethodError when not, and nothing else.
C10_KeyValueLookup ==
    (/\ rdata.kind = "str" /\ Contains(rdata.s, "=")
     /\ rcls \notin FlatClasses /\ rres # Pending) =>
       IF HasKey(rcls, KeyOf(rdata.s))
       THEN rres = Ok(Url(_url(rcls), Segment(rcls, KeyOf(rdata.s)),
                          ValueOf(rdata.s)))
       ELSE rres = Raise("JSSUnsupportedSearchMethodError")

\* C11: for every class whose default search key is name and every text
\* s that does not read as an integer and has no "=", get_url(s) and
\* get_url("name=" + s) have the same outcome: the same URL or the same
\* exception.
C11_DefaultSearchIsName ==
    (/\ rdata.kind = "str" /\ ~Contains(rdata.s, "=")
     /\ ~ParseInt(rdata.s).ok
     /\ default_search(rcls) = KeyName
     /\ rres # Pending /\ rres2 # Pending) => rres = rres2

\* get_object was called with arguments of the kinds it is written for and
\* has returned or raised.
Mapped == mpc = "done" /\ msubset.kind # "other"

\* C12: for every class that can get and cannot list, get_object with data
\* None issues one GET, to url_root, and returns one object whose tree is
\* the whole document of the answer, whatever that document is.
C12_GetOnlyIsSingle ==
    (Mapped /\ can_get(mcls) /\ ~can_list(mcls) /\ mdata = NoneData) =>
       /\ mreq = Get(RootUrl(_url(mcls)), <<>>)
       /\ mres = AnObject(mcls, mdoc)

\* A class that cannot list was asked with None and answered with a list
\* document: one object.
C12_Witness ==
    /\ Mapped /\ mcls = "ActivationCode" /\ mdata = NoneData
    /\ mdoc = DocList
    /\ mres = AnObject("ActivationCode", DocList)

\* The element a list is read from: the root, or the class's container.
ListRoot(c, doc) ==
    IF container(c) = "" THEN doc ELSE Find(doc, container(c)).kids

\* The positions of the children that are not the size marker.
Members(nodes) == {i \in 1..Len(nodes) : nodes[i].tag # "size"}

\* C13: for every class that can list and get, get_object with data None,
\* answered with a document that has the class's container tag when the
\* class has one, returns a list with one record per child, other than
\* the size marker, of the root or of the container tag: as many records
\* as the size marker says, each with the id and name of its child, in
\* the children's order.
C13_ListOfMembers ==
    (/\ Mapped /\ can_list(mcls) /\ can_get(mcls) /\ mdata = NoneData
     /\ mbranch # "none"
     /\ container(mcls) # "" => HasChild(mdoc, container(mcls))) =>
       LET kids == ListRoot(mcls, mdoc)
       IN  /\ mres.ok /\ mres.kind = "list"
           /\ Len(mres.items) = Cardinality(Members(kids))
           /\ \A i \in 1..Len(kids) :
                 kids[i].tag = "size" =>
                    kids[i].text = IntToStr(Len(mres.items))
           /\ \A j \in 1..Len(mres.items) :
                 \E i \in Members(kids) :
                    /\ Cardinality({k \in Members(kids) : k <= i}) = j
                    /\ mres.items[j].id = kids[i].id
                    /\ mres.items[j].name = kids[i].name

\* Account asked with None and answered with the accounts document: the
\* two users, not the group.
C13_Witness ==
    /\ Mapped /\ mcls = "Account" /\ mdata = NoneData
    /\ mdoc = DocAccounts
    /\ mres.ok /\ mres.kind = "list"
    /\ Len(mres.items) = 2
    /\ mres.items[1].id = <<"1">> /\ mres.items[2].id = <<"2">>

\* The document has a size marker, at its root or under the class's
\* container tag.
HasSizeMarker(c, doc) ==
    \/ HasChild(doc, "size")
    \/ /\ container(c) # "" /\ HasChild(doc, container(c))
       /\ HasChild(Find(doc, container(c)).kids, "size")

\* C14 as stated: whatever the data (None, an int or a text), get_object
\* returns a list exactly when the document has a size marker, and
\* otherwise one object whose tree is the document.
C14_ShapeDecides ==
    (/\ Mapped /\ mdata.kind \in {"none", "int", "str"}
     /\ mbranch # "none" /\ mres.ok) =>
       /\ mres.kind = "list" <=> HasSizeMarker(mcls, mdoc)
       /\ mres.kind # "list" => mres = AnObject(mcls, mdoc)

\* The subsets the caller asked for.
Requested(subset) ==
    IF subset.kind = "list" THEN subset.l ELSE Split(subset.s, "&")

\* The GET carries the subsets asked for, and general.
SubsetSuffixed ==
    LET r == Requested(msubset)
        all == IF \E i \in 1..Len(r) : r[i] = GeneralText THEN r
               ELSE r \o <<GeneralText>>
    IN  /\ mreq.suffix = SubsetPrefix \o Join(all, "&")
        /\ Ok(mreq.url) = get_url(mcls, mdata)

\* C15 as stated: a get_object call with a subset that is not empty, a
\* list or a text, whatever the data, fetches the routed URL followed by
\* /subset/ and the subsets joined by "&", general among them.
C15_Original ==
    (Mapped /\ Truthy(msubset) /\ mbranch # "none") => SubsetSuffixed

\* C15 amended: the same for a data that is not None; with None the URL
\* is the routed one alone, or followed by /subset/basic when the class
\* is Computer and the subset is basic alone.
C15_SubsetSuffix ==
    (Mapped /\ Truthy(msubset) /\ mbranch # "none") =>
       IF mdata # NoneData THEN SubsetSuffixed
       ELSE /\ mreq.url = RootUrl(_url(mcls))
            /\ mreq.suffix =
                  IF /\ mcls = "Computer"
                     /\ Len(Requested(msubset)) = 1
                     /\ Upper(Requested(msubset)[1]) = BasicUpperText
                  THEN SubsetPrefix \o BasicText
                  ELSE <<>>

\* Policy 1 was fetched with the subset "scope": /subset/scope&general.
C15_Witness ==
    /\ Mapped /\ mcls = "Policy" /\ mdata = IntData(1)
    /\ msubset = TextSubset(ScopeText)
    /\ mreq = Get(Url("/policies", "/id/", <<"1">>),
                  SubsetPrefix \o ScopeText \o <<"&">> \o GeneralText)
    /\ mres.ok

\* The text an int or text key is compared with.
KeyText(key) == IF key.kind = "int" THEN IntToStr(key.n) ELSE key.s

\* The children the key matches: by identifier for an object, by
\* identifier or by name for an identifier or a name.
Matching(kids, key) ==
    {i \in 1..Len(kids) :
        IF key.kind = "obj" THEN kids[i].id = key.id
        ELSE \/ kids[i].id = KeyText(key)
             \/ key.kind = "str" /\ kids[i].name = key.s}

\* remove_object_from_list has returned or raised for an object, an int
\* or a text.
Removed ==
    /\ eres # Pending /\ ecall.op = "remove"
    /\ ekey.kind \in {"obj", "int", "str"}

\* C16: removing a key that matches exactly one child removes that child
\* and no other; removing a key that matches no child or several raises
\* ValueError and leaves the list as it was.
C16_RemoveExactlyOne ==
    Removed =>
       IF Cardinality(Matching(ekids0, ekey)) = 1
       THEN /\ eres = Return
            /\ \E i \in Matching(ekids0, ekey) : ekids = RemoveAt(ekids0, i)
       ELSE /\ eres = Raise("ValueError")
            /\ ekids = ekids0

\* The second of two children was removed by its name.
C16_Witness ==
    /\ Removed /\ eres = Return
    /\ ekey = StrData(<<"a">>)
    /\ ekids0 = <<Child(<<"1">>, <<"1">>), Child(<<"2">>, <<"a">>)>>
    /\ ekids = <<Child(<<"1">>, <<"1">>)>>

\* C17: with an int or a text key, when exactly one child's identifier
\* equals the key that child is removed, even if another child's name
\* equals the key.
C17_IdentifierFirst ==
    (Removed /\ ekey.kind \in {"int", "str"}) =>
       LET byId == {i \in 1..Len(ekids0) : ekids0[i].id = KeyText(ekey)}
       IN  Cardinality(byId) = 1 =>
              /\ eres = Return
              /\ \E i \in byId : ekids = RemoveAt(ekids0, i)

\* The last method call made on the list was name, and it is over.
LastCall(name) ==
    /\ lpc = "ready" /\ lhist # <<>>
    /\ lhist[Len(lhist)].op = name

\* l is a permutation of m (both without repeated elements).
Permutation(l, m) ==
    /\ Len(l) = Len(m)
    /\ {l[i] : i \in 1..Len(l)} = {m[i] : i \in 1..Len(m)}

\* The position of an element in a list.
Pos(l, r) == CHOOSE i \in 1..Len(l) : l[i] = r

\* C18: after sort() the elements are a permutation of what they were, in
\* non-decreasing order of id compared as numbers ("9" before "10"), and
\* after sort_by_name() in non-decreasing order of name compared as text;
\* in both, elements with equal keys keep their relative order.
C18_SortOrders ==
    /\ LastCall("sort") =>
          /\ Permutation(lst, lprev)
          /\ \A i, j \in 1..Len(lst) :
                i < j =>
                   /\ IdOf(lst[i]) <= IdOf(lst[j])
                   /\ IdOf(lst[i]) = IdOf(lst[j])
                         => Pos(lprev, lst[i]) < Pos(lprev, lst[j])
    /\ LastCall("sort_by_name") =>
          /\ Permutation(lst, lprev)
          /\ \A i, j \in 1..Len(lst) :
                i < j =>
                   /\ ~TextLess(lst[j].name, lst[i].name)
                   /\ lst[i].name = lst[j].name
                         => Pos(lprev, lst[i]) < Pos(lprev, lst[j])

\* A list that had id 10 before id 9 was sorted: 9, then 10.
C18_Witness ==
    /\ LastCall("sort")
    /\ Len(lst) = 2
    /\ lprev[1].id = <<"1", "0">> /\ lprev[2].id = <<"9">>
    /\ lst[1].id = <<"9">> /\ lst[2].id = <<"1", "0">>

\* The orderings of the elements of a list.
Orderings(l) ==
    {m \in [1..Len(l) -> {l[i] : i \in 1..Len(l)}] : Permutation(m, l)}

\* sort_by_name() and then sort() were called on the list as it was built.
NameThenId ==
    /\ lpc = "ready" /\ Len(lhist) = 2
    /\ lhist[1].op = "sort_by_name" /\ lhist[2].op = "sort"

\* C19 as stated: whatever the elements and whatever the order they
\* were in, sort_by_name() followed by sort() ends with the same sequence.
C19_Original ==
    NameThenId =>
       \A m \in Orderings(lorig) : sort(sort_by_name(m)) = lst

\* No two elements have the same id, as a number, and the same name.
KeysDiffer(l) ==
    \A i, j \in 1..Len(l) :
       (IdOf(l[i]) = IdOf(l[j]) /\ l[i].name = l[j].name) => i = j

\* C19 amended: the same for elements no two of which have both the same
\* id and the same name.
C19_SortDeterminism ==
    (NameThenId /\ KeysDiffer(lorig)) =>
       \A m \in Orderings(lorig) : sort(sort_by_name(m)) = lst

\* Three elements, two with the same id and two with the same name, built
\* in an order that is not the final one, were sorted by name, then by id.
C19_Witness ==
    /\ NameThenId /\ KeysDiffer(lorig)
    /\ Len(lorig) = 3
    /\ lorig # lst
    /\ \E i, j \in 1..3 : i # j /\ lorig[i].id = lorig[j].id
    /\ \E i, j \in 1..3 : i # j /\ lorig[i].name = lorig[j].name

\* The retrieve calls among the method calls made.
Retrieves == {k \in 1..Len(lhist) : lhist[k].op = "retrieve"}
\* Those that issued a GET: the index was one of the list's.
Fetches == {k \in Retrieves : lhist[k].index < Len(lst)}
\* The number of GETs the first k method calls issued.
RECURSIVE SentBy(_)
SentBy(k) == IF k = 0 THEN 0 ELSE SentBy(k - 1) + lhist[k].sent
\* The GET of the k-th method call, a retrieve.
GetOf(k) == llog[SentBy(k)]

\* C20: retrieve(index) issues exactly one GET, to url_root + id path +
\* the id of the element at that index; it returns the object with that
\* id; it leaves the list as it was; and a second call with the same
\* index issues the same GET and returns the same.
C20_Retrieve ==
    /\ \A k \in Retrieves : lhist[k].sent = IF k \in Fetches THEN 1 ELSE 0
    /\ (lhist # <<>> /\ lhist[Len(lhist)].op = "retrieve") =>
          LET call == lhist[Len(lhist)]
          IN  /\ lst = lprev
              /\ call.index < Len(lst) =>
                    LET r == lst[call.index + 1]
                    IN  /\ llog[Len(llog)] =
                              Get(Url(_url(lcls), id_url(lcls), r.id), <<>>)
                        /\ (call.res # Pending /\ IdOf(r) \notin lgone) =>
                              /\ call.res.ok /\ call.res.kind = "object"
                              /\ call.res.cls = lcls
                              /\ HasChild(call.res.tree, "id")
                              /\ Find(call.res.tree, "id").text = r.id
    /\ \A k \in Fetches :
          (/\ k + 1 \in Fetches
           /\ lhist[k].index = lhist[k + 1].index
           /\ lhist[k + 1].res # Pending) =>
              /\ lhist[k].res = lhist[k + 1].res
              /\ GetOf(k) = GetOf(k + 1)

\* retrieve(1) was called twice on a list with ids 9 and 10: the object
\* with id 10 both times, by two GETs.
C20_Witness ==
    /\ lpc = "ready" /\ Len(lhist) = 2 /\ Len(llog) = 2
    /\ Len(lst) = 2 /\ lst[1].id = <<"9">> /\ lst[2].id = <<"1", "0">>
    /\ lhist[1] = lhist[2]
    /\ lhist[1].op = "retrieve" /\ lhist[1].index = 1
    /\ lhist[1].res.ok
    /\ Find(lhist[1].res.tree, "id").text = <<"1", "0">>
    /\ lst = lorig

\* The GETs the k-th method call issued.
GetsOf(k) == SubSeq(llog, SentBy(k - 1) + 1, SentBy(k))
\* The GET for one member of the list.
MemberGet(r) == Get(Url(_url(lcls), id_url(lcls), r.id), <<>>)
\* The full object of one member of the list.
MemberObject(r) == AnObject(lcls, FullDoc(r.id))
RetrieveAllLast ==
    lhist # <<>> /\ lhist[Len(lhist)].op = "retrieve_all"

SlashFree(t) == t = <<>> \/ t[Len(t)] # "/"

\* C22: for every URL given at construction or assigned later, the
\* stored base_url does not end with a slash, and every request URL is a
\* slash-free base followed by /JSSResource and the path.
C22_BaseUrlSlashFree ==
    /\ upc = "built" => SlashFree(ubase)
    /\ ureq # NoReq =>
          \E b \in UrlTexts(MaxUrl) :
             /\ SlashFree(b)
             /\ ureq.url = b \o <<"/">> \o JSSResource \o
                   (IF ureq.verb = "GET" THEN quote(ureq.path)
                    ELSE ureq.path)

\* A URL of a letter and a slash was given and a GET issued: the request
\* went to h/JSSResource/p%20.
C22_Witness ==
    /\ upc = "built" /\ ubase = <<"h">>
    /\ ureq.verb = "GET"
    /\ ureq.url = <<"h", "/">> \o JSSResource \o <<"/", "p", "%", "2", "0">>

\* The failure type of each transport call.
FailureOf(verb) ==
    CASE verb = "GET" -> "JSSGetError"
      [] verb = "POST" -> "JSSPostError"
      [] verb = "PUT" -> "JSSPutError"
      [] OTHER -> "JSSDeleteError"

\* The last transport call failed on the status of its response.
FailedOnStatus ==
    ~uout.ok /\ uout.err = Exc(FailureOf(ureq.verb), ureq.status)

LabelledErrors ==
    {"JSSGetError", "JSSPostError", "JSSPutError", "JSSDeleteError"}

\* The body of the last response cannot be read as the document the call
\* expects: a GET body that is no XML, a POST reply without <id>.
Unreadable ==
    /\ ureq.verb \in {"GET", "POST"}
    /\ ureq.body = "garbage"

\* C24: whenever a response body cannot be read as the expected document
\* (a GET body that is not well-formed XML, a POST reply without a
\* created identifier), the call fails with one of the library's
\* labelled errors; no unlabelled exception reaches the caller.
C24_UnparseableLabelled ==
    (ureq # NoReq /\ Unreadable) =>
       /\ ~uout.ok
       /\ uout.err.exc \in LabelledErrors

\* C25: for every lookup argument the documentation lists (None, an
\* integer, a string, a mapping carrying an id, a pre-built document),
\* get_object returns an object or a list or raises; it never returns
\* without a result, and for a pre-built document it issues no GET.
C25_GetObjectTotal ==
    mpc = "done" =>
       /\ mres.ok => mres.kind \in {"object", "list"}
       /\ mdata = ElementData => mreq = NoGet

\* The values Python takes for true, of those given.
TruthyValues ==
    {BoolData(TRUE), IntData(1), StrData(<<"f", "a", "l", "s", "e">>)}
WireText(v) == IF v \in TruthyValues THEN "true" ELSE "false"

\* C26: after set_bool(location, v) for any value v, and after assigning
\* any boolean b to a group's is_smart, the field's text is "true" when
\* the value is truthy and "false" otherwise, and reading is_smart back
\* returns b.
C26_BooleanWireText ==
    /\ (gres.op \in {"set_bool", "assign"} /\ gres.ok) =>
          gsmart = WireText(gres.arg)
    /\ (gres.op = "read" /\ gres.prev = "assign" /\ gres.arg.kind = "bool") =>
          gres.val = (IF gres.arg.b THEN "True" ELSE "False")

\* True was assigned to is_smart of a group that was not smart, and
\* is_smart read back: "true" on the wire, True read.
C26_Witness ==
    /\ gres.op = "read" /\ gres.prev = "assign"
    /\ gres.arg = BoolData(TRUE)
    /\ gsmart = "true" /\ gres.val = "True"

\* t ends with s.
IsSuffix(s, t) ==
    Len(s) <= Len(t) /\ SubSeq(t, Len(t) - Len(s) + 1, Len(t)) = s

\* C27: after any sequence of add_criterion and successful save() calls,
\* every criterion added since the last successful save is a child of
\* the criteria element of the group's current tree, in the order added.
C27_CriteriaAttached ==
    gadded # <<>> => (gcrit # 0 /\ IsSuffix(gadded, TreeCriteria))

\* C29: for every object, one without identifier and one whose
\* identifier already occurs in the list included, add_object_to_path
\* either appends exactly one entry holding the object's id and name and
\* returns that newly appended entry, or raises and leaves the list as
\* it was.
C29_AddAllOrNothing ==
    (eres # Pending /\ ecall.op = "add") =>
       IF eres.ok
       THEN /\ ekids = Append(ekids0, as_list_data(ekey.id, ecall.name))
            /\ eres.at = Len(ekids0) + 1
       ELSE ekids = ekids0

\* Both save() calls have returned or raised.
BothDone == \A o \in Objs : pc[o] = "done" /\ op[o] = "save"
Other(o) == IF o = "o1" THEN "o2" ELSE "o1"
\* The record the server makes of the tree save() sent for o.
RecordOf(o, clk) == Stored(cls, 1, SavePre(cls, pre[o]).tree, clk)
\* The PUT of o came first and its GET after both PUTs.
Overtaken(o) ==
    /\ BothDone
    /\ log[o][2].verb = "GET" /\ tree[o].stamp = clock
    /\ srv[1] # RecordOf(o, clock)

\* C28 as stated: for every interleaving of the PUT and GET steps of the
\* two save() calls both return without error, the record ends equal to
\* the tree sent by the later PUT, and a save() whose GET runs after the
\* other's PUT ends with the other object's data as its local tree.
C28_Original ==
    BothDone =>
       /\ \A o \in Objs : err[o] = NoErr
       /\ \E o \in Objs : srv[1] = RecordOf(o, clock)
       /\ \A o \in Objs :
             tree[o].stamp = clock => tree[o] = RecordOf(Other(o), clock)

\* C28 amended: both calls return without error; every PUT replaces the
\* whole record by the tree it sent, so the record ends equal to the tree
\* of the later PUT; every GET makes the local tree the record as it is
\* then, so a save() whose PUT was the earlier one and whose GET runs
\* after the other's PUT ends with the other object's data.
C28_LostUpdate ==
    /\ [](BothDone =>
            /\ \A o \in Objs : err[o] = NoErr
            /\ \E o \in Objs : srv[1] = RecordOf(o, clock)
            /\ \A o \in Objs :
                  /\ Overtaken(o) => tree[o] = RecordOf(Other(o), clock)
                  /\ srv[1] = RecordOf(o, clock) =>
                        tree[o] = RecordOf(o, tree[o].stamp))
    /\ [][\A o \in Objs :
            /\ (pc[o] = "put" /\ pc'[o] # "put") =>
                  srv'[1] = Stored(cls, 1, tree[o], clock')
            /\ (pc[o] = "get" /\ pc'[o] # "get") => tree'[o] = srv[1]]_vars

\* o1's PUT, o2's PUT, then both GETs: the record and both trees carry
\* o2's name and not o1's data.
C28_Witness ==
    /\ BothDone /\ Overtaken("o1")
    /\ pre["o1"].data = 1 /\ tree["o1"].data = 0 /\ srv[1].data = 0
    /\ tree["o1"].name = pre["o2"].name
    /\ tree["o2"] = tree["o1"]

\* No record the server made has been deleted, out of band or by
\* delete().
NoDeletion == \A k \in 1..MaxId : k < nextId => srv[k] # Absent
\* The records the server has made: one for every POST it accepted.
Created == nextId - 1
\* A save() of o is under way or over that is not the one whose POST
\* made the record.
LaterSave(o) ==
    /\ op[o] = "save" /\ log[o] # <<>>
    /\ \A k \in 1..Len(log[o]) :
          ~(log[o][k].verb = "POST" /\ log[o][k].status = StatusCreated)

\* C30: for one local object and any sequence of save() calls in which
\* any transport call may fail, with no deletion, at most one POST for
\* the object succeeds; once one has, every later save() is a PUT to the
\* identifier of the record it made.
C30_OneRecordPerObject ==
    NoDeletion =>
       /\ Created <= 1
       /\ \A o \in Objs :
             (Created = 1 /\ LaterSave(o) /\ cls \notin FlatClasses) =>
                /\ log[o][1].verb = "PUT"
                /\ log[o][1].url = Url(_url(cls), id_url(cls), IntToStr(1))

=============================================================================
